---- MODULE Spec2Model ----
(***************************************************************************)
(* The article generation pipeline of ai-article-generator:                *)
(*   articleService.generateAdvancedArticle  (the five-stage orchestrator) *)
(*   articleService.generateArticle          (the legacy adapter)          *)
(*   articleController.*                     (the HTTP handlers)           *)
(*   OpenAIService.callOpenAIAPI and the five stage methods                *)
(*   articleService.generateBatchArticles    (the batch loop)              *)
(*   articleService.getArticleById, deleteArticle, getAllArticles,         *)
(*   getArticleStats                         (the in-memory store)         *)
(* One run is in flight at a time; every await of an upstream call is two  *)
(* steps, the call and its resolution.                                     *)
(*                                                                         *)
(* Four specifications share the variables:                                *)
(*   Spec        one request to any of the three generation endpoints,     *)
(*               against everything the upstream may answer;               *)
(*   ClientSpec  one call of callOpenAIAPI, down to the text of the        *)
(*               content it receives;                                      *)
(*   BatchSpec   one generate-batch request of several topics;             *)
(*   StoreSpec   several generate-advanced requests, with the handlers     *)
(*               that read and delete records taken at any moment.         *)
(* BatchSpec and StoreSpec run against an upstream that either is down or  *)
(* answers with text that does not parse.                                  *)
(*                                                                         *)
(* JavaScript values are modelled as follows.                              *)
(*   - a number that need not be an integer (article_count arrives         *)
(*     unvalidated through generate-batch) is a record                     *)
(*     [nan, int, half]: NaN, or int + (half ? 0.5 : 0);                   *)
(*   - a parsed JSON response is a record with the fields of the task it   *)
(*     answers; js = "null" is the JSON value null, and a field the        *)
(*     response lacks has kind "undefined";                                *)
(*   - a string is a TLA+ string; "undefined" is the value undefined.      *)
(***************************************************************************)
EXTENDS Integers, Sequences, FiniteSets, TLC

VARIABLES
    pc,                     \* position of the request in flight
    entry,                  \* the endpoint that started it
    req,                    \* articleData, after the defaults of lines 21-34
    trendingTopics,         \* articleService.js:41
    maxCandidates,          \* articleService.js:53
    i,                      \* articleService.js:55
    articleCandidates,      \* articleService.js:52
    bestArticle,            \* articleService.js:77
    finalArticle,           \* articleService.js:91
    performancePrediction,  \* articleService.js:107
    article,                \* articleService.js:118, the record returned
    error,                  \* the error the run threw, "none" if none
    calls,                  \* the stage methods invoked so far, in order
    fetches,                \* the requests sent to the upstream so far, in order
    attempts,               \* for each stage-2 iteration, what its attempt gave
    optimization,           \* what the call of optimizeArticle gave, if made
    prediction,             \* what the call of predictPerformance gave, if made
    articles,               \* articleService.js:7, the in-memory Map
    nextId,                 \* the uuids handed out so far
    response,               \* what the HTTP handler answered
    apiKey,                 \* OpenAIService.apiKey, read once by the constructor
    invocation,             \* a call of callOpenAIAPI taken on its own
    settled,                \* what that call gave
    upstreamStatuses,       \* what the upstream is seen to do with a request
    batch,                  \* position of generateBatchArticles
    topics,                 \* articleService.js:157
    sharedParams,           \* articleService.js:157
    index,                  \* articleService.js:161
    results,                \* articleService.js:158
    pauses,                 \* the indexes after which line 176 waited
    served,                 \* what the last handler of the store answered
    body,                   \* req.body of the request last received
    envKey,                 \* process.env.OPENAI_API_KEY
    suspended,              \* the runs that wait while another one steps
    hung                    \* the requests whose upstream call never resolves

\* what no step of generateAdvancedArticle changes
beyondRun == << invocation, settled, upstreamStatuses, batch, topics,
               sharedParams, index, results, pauses, served, body,
                    envKey, suspended, hung >>

\* the locals of generateAdvancedArticle, with what is recorded of its calls
runLocals == << req, trendingTopics, maxCandidates, i, articleCandidates,
               bestArticle, finalArticle, performancePrediction, article,
               error, calls, fetches, attempts, optimization, prediction >>

vars == << pc, entry, req, trendingTopics, maxCandidates, i, articleCandidates,
           bestArticle, finalArticle, performancePrediction, article, error,
           calls, fetches, attempts, optimization, prediction, articles,
           nextId,
           response, apiKey, invocation, settled, upstreamStatuses, batch,
           topics, sharedParams, index, results, pauses, served, body,
                    envKey, suspended, hung >>

-----------------------------------------------------------------------------
(* Bounds of the model *)

\* the longest trending_topics array the upstream answers with
MaxTopics == 2

\* the longest content, in lexical units, the upstream answers with
MaxContent == 4

\* the longest topics array of a batch
MaxBatch == 3

\* the most records the runs of StoreSpec store
MaxStored == 2

-----------------------------------------------------------------------------
(* Program constants *)

\* validation.js:20  isInt({ min: 1, max: 5 })
MinArticleCount == 1
MaxArticleCount == 5

\* config.js:52  articleDefaults.articleCount
DefaultArticleCount == 3

-----------------------------------------------------------------------------
(* JavaScript numbers on the half-integer grid *)

Num(n) == [nan |-> FALSE, int |-> n, half |-> FALSE]
NumHalf(n) == [nan |-> FALSE, int |-> n, half |-> TRUE]
NaN == [nan |-> TRUE, int |-> 0, half |-> FALSE]

\* a < b as JavaScript compares numbers: false when either is NaN
JsLess(a, b) ==
    /\ ~a.nan /\ ~b.nan
    /\ \/ a.int < b.int
       \/ a.int = b.int /\ ~a.half /\ b.half

JsLeq(a, b) == ~a.nan /\ ~b.nan /\ (JsLess(a, b) \/ a = b)

-----------------------------------------------------------------------------
(* Parsed JSON *)

JsonNull == [js |-> "null"]
Undefined == [js |-> "undefined"]
EmptyObject == [js |-> "object"]

\* o.f is neither undefined nor null (every field modelled holds an object,
\* an array, a string or null)
Has(o, f) == o.js = "object" /\ f \in DOMAIN o /\ o[f].js # "null"

\* the strings of a response: a title or a content the response carries
Text(s) == [js |-> "string", text |-> s]

\* what the upstream may answer to a trending_analysis prompt
TopicJson == {JsonNull, [js |-> "object", headline |-> Text("headline")]}

TopicArrays ==
    {[js |-> "array", items |-> s] :
        s \in UNION {[1..n -> TopicJson] : n \in 0..MaxTopics}}

TrendingJson ==
    {JsonNull, EmptyObject}
    \cup {[js |-> "object", trending_topics |-> t] :
            t \in {JsonNull, EmptyObject} \cup TopicArrays}

\* ... to an article_generation prompt
CandidateJson ==
    { EmptyObject,
      [js |-> "object", title |-> Text("candidate title"),
       content |-> Text("candidate content")] }

\* ... to an article_selection prompt
SelectedArticleJson ==
    {[js |-> "object", article_index |-> k] : k \in {0, MaxTopics}}
    \cup {[js |-> "object", article_index |-> k,
           title |-> Text("candidate title"),
           content |-> Text("candidate content")] : k \in {0, MaxTopics}}

ReasoningJson ==
    { [js |-> "object", optimization_suggestions |-> [js |-> "array"]],
      [js |-> "object", optimization_suggestions |-> Text("add statistics")] }

SelectionJson ==
    {JsonNull, EmptyObject, [js |-> "object", selected_article |-> JsonNull]}
    \cup {[js |-> "object", selected_article |-> a] : a \in SelectedArticleJson}
    \cup {[js |-> "object", selected_article |-> a, selection_reasoning |-> r] :
            a \in SelectedArticleJson, r \in ReasoningJson}

\* ... to an article_optimization prompt
OptimizationJson ==
    { JsonNull, EmptyObject,
      [js |-> "object", optimized_article |-> JsonNull],
      [js |-> "object", optimized_article |-> EmptyObject],
      [js |-> "object",
       optimized_article |-> [js |-> "object", title |-> Text("optimized title"),
                              content |-> Text("optimized content")]] }

\* ... to a performance_prediction prompt
PredictionJson ==
    { JsonNull,
      [js |-> "object", confidence_level |-> Text("medium")] }

JsonOf(taskType) ==
    CASE taskType = "trending_analysis" -> TrendingJson
      [] taskType = "article_generation" -> CandidateJson
      [] taskType = "article_selection" -> SelectionJson
      [] taskType = "article_optimization" -> OptimizationJson
      [] taskType = "performance_prediction" -> PredictionJson

-----------------------------------------------------------------------------
(* OpenAIService *)

MockContent == Text("mock article content")

\* a mock that keeps only the fields generateAdvancedArticle reads
getMockResponseAbridged(taskType) ==
    CASE taskType = "trending_analysis" ->
            [js |-> "object",
             trending_topics |->
                [js |-> "array",
                 items |->
                    << [js |-> "object",
                        headline |-> Text("AI Revolution in Modern Technology")],
                       [js |-> "object",
                        headline |-> Text("Digital Transformation Trends")] >>]]
      [] taskType = "article_generation" ->
            [js |-> "object",
             title |-> Text("Understanding Modern Technology Trends"),
             content |-> MockContent]
      [] taskType = "article_selection" ->
            [js |-> "object",
             selected_article |->
                [js |-> "object", article_index |-> 0,
                 title |-> Text("The Future of Technology: Trends to Watch"),
                 content |-> MockContent],
             selection_reasoning |->
                [js |-> "object",
                 optimization_suggestions |-> [js |-> "array"]]]
      [] taskType = "article_optimization" ->
            [js |-> "object",
             optimized_article |->
                [js |-> "object",
                 title |-> Text("The Future of Technology: Essential Trends Every Professional Should Know"),
                 content |-> MockContent]]
      [] taskType = "performance_prediction" ->
            [js |-> "object", confidence_level |-> Text("high")]

\* an array of strings
Strings(texts) ==
    [js |-> "array", items |-> [k \in DOMAIN texts |-> Text(texts[k])]]

\* a number, whatever its value
Number == [js |-> "number"]

\* getMockResponse, README.md:562-635; generateMockArticleContent gives a
\* string
getMockResponse(taskType) ==
    CASE taskType = "trending_analysis" ->
            [js |-> "object",
             trending_topics |->
                [js |-> "array",
                 items |->
                    << [js |-> "object",
                        headline |-> Text("AI Revolution in Modern Technology"),
                        significance_score |-> Number,
                        trend_velocity |-> Text("rising_fast"),
                        key_angles |->
                            Strings(<< "automation", "machine learning",
                                       "future of work" >>),
                        target_keywords |->
                            Strings(<< "artificial intelligence",
                                       "AI technology", "automation" >>),
                        estimated_interest |-> Text("high")],
                       [js |-> "object",
                        headline |-> Text("Digital Transformation Trends"),
                        significance_score |-> Number,
                        trend_velocity |-> Text("steady_rise"),
                        key_angles |->
                            Strings(<< "digital innovation",
                                       "business transformation",
                                       "technology adoption" >>),
                        target_keywords |->
                            Strings(<< "digital transformation", "innovation",
                                       "technology" >>),
                        estimated_interest |-> Text("high")] >>]]
      [] taskType = "article_generation" ->
            [js |-> "object",
             title |-> Text("Understanding Modern Technology Trends"),
             subtitle |-> Text("A comprehensive guide to navigating the digital landscape"),
             content |-> MockContent,
             tags |-> Strings(<< "technology", "innovation", "digital",
                                 "trends", "future" >>),
             estimated_read_time |-> Text("6 min read"),
             word_count |-> Number,
             seo_score |-> Number,
             engagement_factors |->
                Strings(<< "compelling headline", "clear structure",
                           "actionable insights" >>)]
      [] taskType = "article_selection" ->
            [js |-> "object",
             selected_article |->
                [js |-> "object", article_index |-> 0,
                 title |-> Text("The Future of Technology: Trends to Watch"),
                 subtitle |-> Text("Exploring the innovations that will shape tomorrow"),
                 content |-> MockContent,
                 tags |-> Strings(<< "technology", "future", "innovation",
                                     "trends" >>),
                 estimated_read_time |-> Text("5 min read")],
             selection_reasoning |->
                [js |-> "object",
                 quality_score |-> Number,
                 strengths |->
                    Strings(<< "Strong SEO potential", "Engaging narrative",
                               "Current relevance" >>),
                 optimization_suggestions |->
                    Strings(<< "Add more statistics", "Include case studies",
                               "Enhance conclusion" >>)]]
      [] taskType = "article_optimization" ->
            [js |-> "object",
             optimized_article |->
                [js |-> "object",
                 title |-> Text("The Future of Technology: Essential Trends Every Professional Should Know"),
                 subtitle |-> Text("A comprehensive analysis of emerging technologies reshaping industries"),
                 content |-> MockContent,
                 tags |-> Strings(<< "technology", "innovation", "future",
                                     "trends", "business" >>),
                 meta_description |-> Text("Discover the key technology trends shaping the future."),
                 estimated_read_time |-> Text("7 min read")],
             optimization_applied |->
                Strings(<< "SEO title optimization", "Keyword integration",
                           "Meta description enhancement" >>),
             seo_improvements |->
                Strings(<< "Improved keyword density", "Enhanced readability",
                           "Better structure" >>)]
      [] taskType = "performance_prediction" ->
            [js |-> "object",
             predicted_metrics |->
                [js |-> "object",
                 estimated_views |-> Text("5,000-10,000"),
                 estimated_read_ratio |-> Number,
                 estimated_claps |-> Text("150-300"),
                 viral_potential |-> Text("moderate")],
             success_factors |->
                Strings(<< "Trending topic", "Strong SEO",
                           "Engaging title" >>),
             improvement_recommendations |->
                Strings(<< "Add more visuals", "Include expert quotes",
                           "Enhance social sharing" >>),
             confidence_level |-> Text("high")]

\* the schema nodes of getJSONSchema
String == [type |-> "string"]
NumberType == [type |-> "number"]
Integer == [type |-> "integer"]
ArrayOf(node) == [type |-> "array", items |-> node]
Object(properties, required) ==
    [type |-> "object", properties |-> properties, required |-> required,
     additionalProperties |-> FALSE]

\* getJSONSchema(taskType).schema, README.md:938-1078
getJSONSchema(taskType) ==
    CASE taskType = "trending_analysis" ->
            Object([trending_topics |->
                        ArrayOf(Object(
                            [headline |-> String,
                             significance_score |-> NumberType,
                             trend_velocity |-> String,
                             key_angles |-> ArrayOf(String),
                             target_keywords |-> ArrayOf(String),
                             estimated_interest |-> String],
                            {"headline", "significance_score",
                             "trend_velocity", "key_angles",
                             "target_keywords", "estimated_interest"}))],
                   {"trending_topics"})
      [] taskType = "article_generation" ->
            Object([title |-> String, subtitle |-> String,
                    content |-> String, tags |-> ArrayOf(String),
                    estimated_read_time |-> String, word_count |-> Integer,
                    seo_score |-> NumberType,
                    engagement_factors |-> ArrayOf(String)],
                   {"title", "subtitle", "content", "tags",
                    "estimated_read_time", "word_count"})
      [] taskType = "article_selection" ->
            Object([selected_article |->
                        Object([article_index |-> Integer, title |-> String,
                                subtitle |-> String, content |-> String,
                                tags |-> ArrayOf(String),
                                estimated_read_time |-> String],
                               {"article_index", "title", "subtitle",
                                "content", "tags", "estimated_read_time"}),
                    selection_reasoning |->
                        Object([quality_score |-> NumberType,
                                strengths |-> ArrayOf(String),
                                optimization_suggestions |-> ArrayOf(String)],
                               {"quality_score", "strengths",
                                "optimization_suggestions"})],
                   {"selected_article", "selection_reasoning"})
      [] taskType = "article_optimization" ->
            Object([optimized_article |->
                        Object([title |-> String, subtitle |-> String,
                                content |-> String, tags |-> ArrayOf(String),
                                meta_description |-> String,
                                estimated_read_time |-> String],
                               {"title", "subtitle", "content", "tags",
                                "meta_description", "estimated_read_time"}),
                    optimization_applied |-> ArrayOf(String),
                    seo_improvements |-> ArrayOf(String)],
                   {"optimized_article", "optimization_applied",
                    "seo_improvements"})
      [] taskType = "performance_prediction" ->
            Object([predicted_metrics |->
                        Object([estimated_views |-> String,
                                estimated_read_ratio |-> NumberType,
                                estimated_claps |-> String,
                                viral_potential |-> String],
                               {"estimated_views", "estimated_read_ratio",
                                "estimated_claps", "viral_potential"}),
                    success_factors |-> ArrayOf(String),
                    improvement_recommendations |-> ArrayOf(String),
                    confidence_level |-> String],
                   {"predicted_metrics", "success_factors",
                    "improvement_recommendations", "confidence_level"})

\* What the upstream does with one request.
\*   network_error  fetch rejects
\*   http_error     !response.ok; inJSON: the message thrown contains "JSON"
\*   bad_body       response.ok, response.json() rejects (SyntaxError ... JSON)
\*   no_content     no choices[0].message.content
\*   unparseable    content that JSON.parse rejects after cleanJSONResponse
\*   json           content that parses, to the value `json`
UpstreamFailures ==
    { [status |-> "network_error"],
      [status |-> "http_error", inJSON |-> FALSE],
      [status |-> "http_error", inJSON |-> TRUE],
      [status |-> "bad_body"],
      [status |-> "no_content"],
      [status |-> "unparseable"] }

UpstreamResponses(taskType) ==
    UpstreamFailures \cup {[status |-> "json", json |-> j] : j \in JsonOf(taskType)}

UpstreamStatuses ==
    {"network_error", "http_error", "bad_body", "no_content", "unparseable",
     "json"}

\* an upstream that is down or answers with text that does not parse
FlakyStatuses == {"network_error", "unparseable"}

NotCalled == [called |-> FALSE]
Threw(m) == [threw |-> TRUE, message |-> m]
Returned(v) == [threw |-> FALSE, value |-> v]

\* what the orchestrator's catch blocks keep of a call: that it threw, or
\* the value it returned
Outcome(r) == IF r.threw THEN [threw |-> TRUE] ELSE r

\* callOpenAIAPI(prompt, maxTokens, temperature, true, taskType), given the
\* key the service holds and what the upstream does
callOpenAIAPI(key, taskType, resp) ==
    IF key = "undefined" THEN Threw("OpenAI API key not configured")
    ELSE CASE resp.status = "network_error" -> Threw("fetch failed")
           [] resp.status = "http_error" ->
                IF resp.inJSON THEN Returned(getMockResponse(taskType))
                ELSE Threw("OpenAI API error")
           [] resp.status = "bad_body" -> Returned(getMockResponse(taskType))
           [] resp.status = "no_content" -> Threw("Invalid response from OpenAI API")
           [] resp.status = "unparseable" -> Returned(getMockResponse(taskType))
           [] resp.status = "json" -> Returned(resp.json)

\* The text of choices[0].message.content, as a sequence of lexical units:
\*   "{" "}" "[" "]"   the brackets
\*   "1"               a JSON number
\*   "p"               a word of prose
\*   "~"               a code fence (three backquotes, with or without json)
\*   a member name, with its colon: the field the task's schema requires
ExpectedField(taskType) ==
    CASE taskType = "trending_analysis" -> "trending_topics"
      [] taskType = "article_generation" -> "title"
      [] taskType = "article_selection" -> "selected_article"
      [] taskType = "article_optimization" -> "optimized_article"
      [] taskType = "performance_prediction" -> "confidence_level"

TaskTypes ==
    {"trending_analysis", "article_generation", "article_selection",
     "article_optimization", "performance_prediction"}

MemberNames == {ExpectedField(t) : t \in TaskTypes}

Units(taskType) == {"{", "}", "[", "]", "1", "p", "~", ExpectedField(taskType)}

Contents(taskType) ==
    UNION {[1..n -> Units(taskType)] : n \in 1..MaxContent}

\* String.prototype.indexOf and lastIndexOf, counting from 0; -1 if absent
indexOf(content, u) ==
    IF \E k \in 1..Len(content) : content[k] = u
    THEN (CHOOSE k \in 1..Len(content) :
            /\ content[k] = u
            /\ \A j \in 1..(k - 1) : content[j] # u) - 1
    ELSE -1

lastIndexOf(content, u) ==
    IF \E k \in 1..Len(content) : content[k] = u
    THEN (CHOOSE k \in 1..Len(content) :
            /\ content[k] = u
            /\ \A j \in (k + 1)..Len(content) : content[j] # u) - 1
    ELSE -1

MathMax(a, b) == IF a < b THEN b ELSE a

IsFence(u) == u = "~"

\* cleanJSONResponse, README.md:540-557
cleanJSONResponse(content) ==
    LET unfenced == SelectSeq(content, LAMBDA u : ~IsFence(u))
        jsonStart == MathMax(indexOf(unfenced, "{"), indexOf(unfenced, "["))
        headless == IF jsonStart > 0
                    THEN SubSeq(unfenced, jsonStart + 1, Len(unfenced))
                    ELSE unfenced
        jsonEnd == MathMax(lastIndexOf(headless, "}"), lastIndexOf(headless, "]"))
    IN  IF jsonEnd # -1 /\ jsonEnd < Len(headless) - 1
        THEN SubSeq(headless, 1, jsonEnd + 1)
        ELSE headless

\* JSON.parse on the units: a number, an array of no or one element, an
\* object of no or one member.  ParseValue gives the value a prefix of the
\* text spells, and the rest of the text.
NoParse == [ok |-> FALSE]
ParsedAs(v, rest) == [ok |-> TRUE, value |-> v, rest |-> rest]

RECURSIVE ParseValue(_)
ParseValue(s) ==
    IF s = << >> THEN NoParse
    ELSE CASE Head(s) = "1" -> ParsedAs([js |-> "number"], Tail(s))
           [] Head(s) = "[" ->
                IF Len(s) >= 2 /\ s[2] = "]"
                THEN ParsedAs([js |-> "array", items |-> << >>],
                              SubSeq(s, 3, Len(s)))
                ELSE LET e == ParseValue(Tail(s))
                     IN  IF e.ok /\ e.rest # << >> /\ Head(e.rest) = "]"
                         THEN ParsedAs([js |-> "array", items |-> << e.value >>],
                                       Tail(e.rest))
                         ELSE NoParse
           [] Head(s) = "{" ->
                IF Len(s) >= 2 /\ s[2] = "}"
                THEN ParsedAs(EmptyObject, SubSeq(s, 3, Len(s)))
                ELSE IF Len(s) >= 2 /\ s[2] \in MemberNames
                THEN LET m == ParseValue(SubSeq(s, 3, Len(s)))
                     IN  IF m.ok /\ m.rest # << >> /\ Head(m.rest) = "}"
                         THEN ParsedAs((s[2] :> m.value) @@ EmptyObject,
                                       Tail(m.rest))
                         ELSE NoParse
                ELSE NoParse
           [] OTHER -> NoParse

JSONparse(s) ==
    LET r == ParseValue(s)
    IN  IF r.ok /\ r.rest = << >>
        THEN Returned(r.value)
        ELSE Threw("SyntaxError: not valid JSON")

\* What fetch and response.json() deliver: the failures above, or a body
\* whose choices[0].message.content is the text content
UpstreamBodies(taskType) ==
    (UpstreamFailures \ {[status |-> "unparseable"]})
    \cup {[status |-> "content", content |-> c] : c \in Contents(taskType)}

\* lines 508-521: the content is cleaned and parsed
Parsed(resp) ==
    IF resp.status = "content"
    THEN LET r == JSONparse(cleanJSONResponse(resp.content))
         IN  IF r.threw THEN [status |-> "unparseable"]
             ELSE [status |-> "json", json |-> r.value]
    ELSE resp

\* callOpenAIAPI(prompt, maxTokens, temperature, returnJSON, taskType), given
\* the key the service holds and what fetch delivers
callOpenAIAPIOn(key, returnJSON, taskType, resp) ==
    IF returnJSON THEN callOpenAIAPI(key, taskType, Parsed(resp))
    ELSE IF key = "undefined" THEN Threw("OpenAI API key not configured")
    ELSE CASE resp.status = "network_error" -> Threw("fetch failed")
           [] resp.status = "http_error" -> Threw("OpenAI API error")
           [] resp.status = "bad_body" -> Threw("SyntaxError: not valid JSON")
           [] resp.status = "no_content" -> Threw("Invalid response from OpenAI API")
           [] resp.status = "content" -> Returned(Text(resp.content))

TypeError == "TypeError"

\* getTrendingTopics: result.trending_topics || []
getTrendingTopics(r) ==
    IF r.threw THEN r
    ELSE IF r.value.js = "null" THEN Threw(TypeError)
    ELSE IF Has(r.value, "trending_topics") THEN Returned(r.value.trending_topics)
    ELSE Returned([js |-> "array", items |-> << >>])

\* generateArticleCandidate reads trendingTopic.headline before it calls
CandidatePromptThrows(trendingTopic) == trendingTopic.js = "null"

\* optimizeArticle reads articleData.selected_article.title and joins
\* selection_reasoning?.optimization_suggestions || []
OptimizePromptThrows(articleData) ==
    /\ Has(articleData, "selection_reasoning")
    /\ Has(articleData.selection_reasoning, "optimization_suggestions")
    /\ articleData.selection_reasoning.optimization_suggestions.js # "array"

-----------------------------------------------------------------------------
(* The requests that reach the orchestrator *)

Topics == {"AI in Healthcare"}

ValidArticleCounts == {Num(n) : n \in MinArticleCount..MaxArticleCount}

\* generate-advanced: validation.js:18-22 and 58-68, then the controller's
\* defaults
AdvancedRequests ==
    [topic : Topics, article_count : ValidArticleCounts,
     auto_optimize : BOOLEAN, include_analytics : BOOLEAN]

\* generate-batch: { topic, ...sharedParams }; validation.js:84-118 checks
\* auto_optimize and include_analytics and says nothing of article_count, so
\* whatever number the body carries reaches the orchestrator
BatchArticleCounts ==
    { Num(DefaultArticleCount),
      NaN, Num(0), NumHalf(MinArticleCount), Num(MaxArticleCount + 1) }

BatchRequests ==
    [topic : Topics, article_count : BatchArticleCounts,
     auto_optimize : BOOLEAN, include_analytics : BOOLEAN]

\* generate (legacy): advancedData of generateArticle
LegacyRequests ==
    [topic : Topics, article_count : {Num(1)},
     auto_optimize : BOOLEAN, include_analytics : {TRUE}]

RequestsOf(e) ==
    CASE e = "advanced" -> AdvancedRequests
      [] e = "batch" -> BatchRequests
      [] e = "legacy" -> LegacyRequests

Entries == {"advanced", "batch", "legacy"}

-----------------------------------------------------------------------------
(* articleService.generateAdvancedArticle *)

\* what the upstream may do with the request of a stage
Answers(taskType) ==
    {resp \in UpstreamResponses(taskType) : resp.status \in upstreamStatuses}

NoTrendsError == "No trending topics found for the specified criteria"
AllCandidatesFailedError == "All article generation attempts failed"
SelectionFailedError == "Article selection process failed"

Call(taskType) == [taskType |-> taskType]

\* o.f as a template literal reads it
Read(o, f) == IF o.js = "object" /\ f \in DOMAIN o THEN o[f] ELSE Undefined

\* what a prediction prompt reads of an article: ${article.title},
\* article.content and article.tags (README.md:862-868)
PromptFields(a) ==
    [title |-> Read(a, "title"), content |-> Read(a, "content"),
     tags |-> Read(a, "tags")]

\* README.md:860-868: const article = articleData.selected_article ||
\* articleData, and the prompt reads article's title, content and tags
predictPerformance(articleData) ==
    PromptFields(IF Has(articleData, "selected_article")
                 THEN articleData.selected_article
                 ELSE articleData)

\* callOpenAIAPI with retries: a second request follows the first
fetchWithRetry(sent, call, taskType) ==
    IF apiKey = "undefined" THEN sent
    ELSE sent \o << [taskType |-> taskType, call |-> call, pending |-> FALSE],
                    [taskType |-> taskType, call |-> call, pending |-> TRUE] >>

\* README.md:448-495: callOpenAIAPI throws before it sends anything when the
\* service holds no key, and else sends one request with fetch and awaits it;
\* call is the number of the stage invocation that sends it
fetch(sent, call, taskType) ==
    IF apiKey = "undefined" THEN sent
    ELSE Append(sent, [taskType |-> taskType, call |-> call, pending |-> TRUE])

\* README.md:487-507: the awaited fetch settles, whatever the upstream did
resolved(sent) == [k \in DOMAIN sent |-> [sent[k] EXCEPT !.pending = FALSE]]

\* trendingTopics.length
LengthOf(a) == IF a.js = "array" THEN Num(Len(a.items)) ELSE NaN

\* Math.min(article_count, trendingTopics.length)
MathMin(a, b) ==
    IF a.nan \/ b.nan THEN NaN
    ELSE IF JsLess(b, a) THEN b ELSE a

\* the check of line 45 left out
NoTopicsUnchecked(tt) == FALSE

\* !trendingTopics || trendingTopics.length === 0
NoTopics(tt) == tt.js = "array" /\ Len(tt.items) = 0

\* only !bestArticle checked
NoSelectionNullOnly(best) == best.js = "null"

\* !bestArticle || !bestArticle.selected_article
NoSelection(best) == ~Has(best, "selected_article")

\* finalArticle assigned before the check of line 97, the failure included
AfterOptimizationUnchecked(final, r) == IF r.threw THEN EmptyObject ELSE r.value

\* optimizedArticle && optimizedArticle.optimized_article
\*     ? optimizedArticle : finalArticle
AfterOptimization(final, r) ==
    IF ~r.threw /\ Has(r.value, "optimized_article") THEN r.value ELSE final

\* a placeholder pushed for a failed attempt
AfterAttemptPlaceholder(cands, r) ==
    IF r.threw THEN Append(cands, JsonNull) ELSE Append(cands, r.value)

\* articleCandidates after one pass of the loop body, lines 56-67
AfterAttempt(cands, r) == IF r.threw THEN cands ELSE Append(cands, r.value)

\* the check of line 70 left out
NoCandidatesUnchecked(cands) == FALSE

\* articleCandidates.length === 0
NoCandidates(cands) == Len(cands) = 0

\* stage 4 run whatever auto_optimize says
ShouldOptimizeAlways(r) == TRUE

\* if (auto_optimize)
ShouldOptimize(r) == r.auto_optimize

\* if (include_analytics)
ShouldPredict(r) == r.include_analytics

\* a failed prediction leaves an empty object instead of null
AfterPredictionPlaceholder(r) == IF r.threw THEN EmptyObject ELSE r.value

\* performancePrediction after the try of lines 109-114
AfterPrediction(r) == IF r.threw THEN JsonNull ELSE r.value

Throw(m) ==
    /\ pc' = "threw"
    /\ error' = m

\* no handler of the store has answered yet; seq is the number of answers
\* given so far, modulo 2
NotServed == [op |-> "none", seq |-> 0]

\* no request to a generation route was received yet; seq is the number of
\* those received so far
NoBody == [route |-> "none", seq |-> 0]

\* the process has started: the store is empty and nothing is in flight;
\* config.js:19 has read the key of the environment and the constructor of
\* OpenAIService, README.md:435, has copied it
Boot(statuses) ==
    /\ pc = "idle"
    /\ entry = "none"
    /\ req = [topic |-> "none", article_count |-> NaN,
              auto_optimize |-> FALSE, include_analytics |-> FALSE]
    /\ trendingTopics = Undefined
    /\ maxCandidates = NaN
    /\ i = 0
    /\ articleCandidates = << >>
    /\ bestArticle = Undefined
    /\ finalArticle = Undefined
    /\ performancePrediction = JsonNull
    /\ article = Undefined
    /\ error = "none"
    /\ calls = << >>
    /\ fetches = << >>
    /\ attempts = << >>
    /\ optimization = NotCalled
    /\ prediction = NotCalled
    /\ articles = << >>
    /\ nextId = 0
    /\ response = [status |-> 0]
    /\ apiKey \in {"undefined", "sk-env"}
    /\ envKey = apiKey
    /\ body = NoBody
    /\ suspended = << >>
    /\ hung = {}
    /\ invocation = NotCalled
    /\ settled = NotCalled
    /\ upstreamStatuses = statuses
    /\ batch = "none"
    /\ topics = << >>
    /\ sharedParams = EmptyObject
    /\ index = 0
    /\ results = << >>
    /\ pauses = {}
    /\ served = NotServed

Init == Boot(UpstreamStatuses)

\* lines 17-43: the locals are fresh and getTrendingTopics is called
BeginRun(articleData) ==
    /\ req' = articleData
    /\ pc' = "s1_wait"
    /\ calls' = << Call("trending_analysis") >>
    /\ fetches' = fetch(<< >>, 1, "trending_analysis")
    /\ trendingTopics' = Undefined
    /\ maxCandidates' = NaN
    /\ i' = 0
    /\ articleCandidates' = << >>
    /\ bestArticle' = Undefined
    /\ finalArticle' = Undefined
    /\ performancePrediction' = JsonNull
    /\ article' = Undefined
    /\ error' = "none"
    /\ attempts' = << >>
    /\ optimization' = NotCalled
    /\ prediction' = NotCalled

\* A request passes validation and its handler calls generateAdvancedArticle
Start ==
    /\ pc = "idle"
    /\ \E e \in Entries : \E r \in RequestsOf(e) :
        /\ entry' = e
        /\ BeginRun(r)
    /\ response' = [status |-> 0]
    /\ UNCHANGED << articles, nextId, apiKey >>
    /\ UNCHANGED beyondRun

\* lines 41-55: getTrendingTopics resolves
Stage1Resolve ==
    /\ pc = "s1_wait"
    /\ fetches' = resolved(fetches)
    /\ \E resp \in Answers("trending_analysis") :
        LET r == getTrendingTopics(callOpenAIAPI(apiKey, "trending_analysis", resp))
        IN  IF r.threw
            THEN Throw(r.message) /\ UNCHANGED << trendingTopics, maxCandidates >>
            ELSE /\ trendingTopics' = r.value
                 /\ IF NoTopics(r.value)
                    THEN Throw(NoTrendsError) /\ UNCHANGED maxCandidates
                    ELSE /\ maxCandidates' = MathMin(req.article_count, LengthOf(r.value))
                         /\ pc' = "s2"
                         /\ UNCHANGED error
    /\ UNCHANGED << optimization, prediction, entry, req, i, articleCandidates, bestArticle, finalArticle,
                    performancePrediction, article, calls, attempts, articles,
                    nextId, response, apiKey >>
    /\ UNCHANGED beyondRun

\* line 55: i < maxCandidates
InLoop == JsLess(Num(i), maxCandidates)

\* lines 55-58: the loop goes on and generateArticleCandidate is called; it
\* builds its prompt from trendingTopics[i] and, unless that throws, awaits
\* the upstream
Stage2Call ==
    /\ pc = "s2"
    /\ InLoop
    /\ calls' = Append(calls, Call("article_generation"))
    /\ IF CandidatePromptThrows(trendingTopics.items[i + 1])
       THEN /\ attempts' = Append(attempts, Outcome(Threw(TypeError)))
            /\ articleCandidates' = AfterAttempt(articleCandidates, Threw(TypeError))
            /\ i' = i + 1
            /\ pc' = "s2"
            /\ UNCHANGED fetches
       ELSE /\ pc' = "s2_wait"
            /\ fetches' = fetch(fetches, Len(calls) + 1, "article_generation")
            /\ UNCHANGED << attempts, articleCandidates, i >>
    /\ UNCHANGED << optimization, prediction, entry, req, trendingTopics, maxCandidates, bestArticle,
                    finalArticle, performancePrediction, article, error, articles,
                    nextId, response, apiKey >>
    /\ UNCHANGED beyondRun

\* lines 57-67: the candidate call resolves; a failure is caught and logged
Stage2Resolve ==
    /\ pc = "s2_wait"
    /\ fetches' = resolved(fetches)
    /\ \E resp \in Answers("article_generation") :
        LET r == callOpenAIAPI(apiKey, "article_generation", resp)
        IN  /\ attempts' = Append(attempts, Outcome(r))
            /\ articleCandidates' = AfterAttempt(articleCandidates, r)
    /\ i' = i + 1
    /\ pc' = "s2"
    /\ UNCHANGED << optimization, prediction, entry, req, trendingTopics, maxCandidates, bestArticle,
                    finalArticle, performancePrediction, article, error, calls,
                    articles, nextId, response, apiKey >>
    /\ UNCHANGED beyondRun

\* lines 70-72: the loop is over with no candidate
Stage2AllFailed ==
    /\ pc = "s2"
    /\ ~InLoop
    /\ NoCandidates(articleCandidates)
    /\ Throw(AllCandidatesFailedError)
    /\ UNCHANGED << optimization, prediction, entry, req, trendingTopics, maxCandidates, i, articleCandidates,
                    bestArticle, finalArticle, performancePrediction, article,
                    calls, fetches, attempts, articles, nextId, response, apiKey >>
    /\ UNCHANGED beyondRun

\* lines 70-79: the loop is over with candidates; selectBestArticle is called
Stage3Call ==
    /\ pc = "s2"
    /\ ~InLoop
    /\ ~NoCandidates(articleCandidates)
    /\ calls' = Append(calls, Call("article_selection"))
    /\ fetches' = fetch(fetches, Len(calls) + 1, "article_selection")
    /\ pc' = "s3_wait"
    /\ UNCHANGED << optimization, prediction, entry, req, trendingTopics, maxCandidates, i, articleCandidates,
                    bestArticle, finalArticle, performancePrediction, article,
                    error, attempts, articles, nextId, response, apiKey >>
    /\ UNCHANGED beyondRun

\* lines 77-91: the selection call resolves
Stage3Resolve ==
    /\ pc = "s3_wait"
    /\ fetches' = resolved(fetches)
    /\ \E resp \in Answers("article_selection") :
        LET r == callOpenAIAPI(apiKey, "article_selection", resp)
        IN  IF r.threw
            THEN Throw(r.message) /\ UNCHANGED << bestArticle, finalArticle >>
            ELSE /\ bestArticle' = r.value
                 /\ IF NoSelection(r.value)
                    THEN Throw(SelectionFailedError) /\ UNCHANGED finalArticle
                    ELSE /\ finalArticle' = r.value
                         /\ pc' = "s4"
                         /\ UNCHANGED error
    /\ UNCHANGED << optimization, prediction, entry, req, trendingTopics, maxCandidates, i, articleCandidates,
                    performancePrediction, article, calls, attempts, articles,
                    nextId, response, apiKey >>
    /\ UNCHANGED beyondRun

\* lines 92-96: auto_optimize is set and optimizeArticle is called; it builds
\* its prompt from bestArticle and, unless that throws, awaits the upstream
Stage4Call ==
    /\ pc = "s4"
    /\ ShouldOptimize(req)
    /\ calls' = Append(calls, Call("article_optimization"))
    /\ IF OptimizePromptThrows(bestArticle)
       THEN /\ optimization' = Outcome(Threw(TypeError))
            /\ finalArticle' = AfterOptimization(finalArticle, Threw(TypeError))
            /\ pc' = "s5"
            /\ UNCHANGED fetches
       ELSE /\ pc' = "s4_wait"
            /\ fetches' = fetch(fetches, Len(calls) + 1, "article_optimization")
            /\ UNCHANGED << finalArticle, optimization >>
    /\ UNCHANGED << prediction, entry, req, trendingTopics, maxCandidates, i, articleCandidates,
                    bestArticle, performancePrediction, article, error, attempts,
                    articles, nextId, response, apiKey >>
    /\ UNCHANGED beyondRun

\* line 92: auto_optimize is not set
Stage4Skip ==
    /\ pc = "s4"
    /\ ~ShouldOptimize(req)
    /\ pc' = "s5"
    /\ UNCHANGED << optimization, prediction, entry, req, trendingTopics, maxCandidates, i, articleCandidates,
                    bestArticle, finalArticle, performancePrediction, article,
                    error, calls, fetches, attempts, articles, nextId, response, apiKey >>
    /\ UNCHANGED beyondRun

\* lines 94-103: the optimization call resolves; a failure is caught and logged
Stage4Resolve ==
    /\ pc = "s4_wait"
    /\ fetches' = resolved(fetches)
    /\ \E resp \in Answers("article_optimization") :
        LET r == callOpenAIAPI(apiKey, "article_optimization", resp)
        IN  /\ optimization' = Outcome(r)
            /\ finalArticle' = AfterOptimization(finalArticle, r)
    /\ pc' = "s5"
    /\ UNCHANGED << prediction, entry, req, trendingTopics, maxCandidates, i, articleCandidates,
                    bestArticle, performancePrediction, article, error, calls,
                    attempts, articles, nextId, response, apiKey >>
    /\ UNCHANGED beyondRun

\* lines 107-110: include_analytics is set and predictPerformance is called
Stage5Call ==
    /\ pc = "s5"
    /\ ShouldPredict(req)
    /\ calls' = Append(calls, Call("performance_prediction")
                            @@ [prompt |-> predictPerformance(finalArticle)])
    /\ fetches' = fetch(fetches, Len(calls) + 1, "performance_prediction")
    /\ pc' = "s5_wait"
    /\ UNCHANGED << optimization, prediction, entry, req, trendingTopics, maxCandidates, i, articleCandidates,
                    bestArticle, finalArticle, performancePrediction, article,
                    error, attempts, articles, nextId, response, apiKey >>
    /\ UNCHANGED beyondRun

\* line 108: include_analytics is not set
Stage5Skip ==
    /\ pc = "s5"
    /\ ~ShouldPredict(req)
    /\ pc' = "persist"
    /\ UNCHANGED << optimization, prediction, entry, req, trendingTopics, maxCandidates, i, articleCandidates,
                    bestArticle, finalArticle, performancePrediction, article,
                    error, calls, fetches, attempts, articles, nextId, response, apiKey >>
    /\ UNCHANGED beyondRun

\* lines 109-114: the prediction call resolves; a failure is caught and logged
Stage5Resolve ==
    /\ pc = "s5_wait"
    /\ fetches' = resolved(fetches)
    /\ \E resp \in Answers("performance_prediction") :
        LET r == callOpenAIAPI(apiKey, "performance_prediction", resp)
        IN  /\ prediction' = Outcome(r)
            /\ performancePrediction' = AfterPrediction(r)
    /\ pc' = "persist"
    /\ UNCHANGED << optimization, entry, req, trendingTopics, maxCandidates, i, articleCandidates,
                    bestArticle, finalArticle, article, error, calls, attempts,
                    articles, nextId, response, apiKey >>
    /\ UNCHANGED beyondRun

\* new Date().toISOString(), line 134: the instants a record may be stamped
\* with
Instants == {"2025-01-01T00:00:00.000Z", "2025-01-01T00:00:02.000Z"}

\* config.js:44  articleDefaults.tone
DefaultTone == "professional"

\* lines 118-136, without processing_time_ms and the parameters the record
\* only copies, tone apart: tone = config.articleDefaults.tone of line 25
\* when articleData carries none
NewArticle(id, createdAt) ==
    [id |-> id,
     topic |-> req.topic,
     tone |-> IF "tone" \in DOMAIN req THEN req.tone ELSE DefaultTone,
     auto_optimize |-> req.auto_optimize,
     include_analytics |-> req.include_analytics,
     trending_topics_analyzed |-> LengthOf(trendingTopics),
     candidates_generated |-> Len(articleCandidates),
     result |-> finalArticle,
     performance_prediction |-> performancePrediction,
     createdAt |-> createdAt,
     status |-> "generated"]

\* an id generator that hands out the lowest id the store does not hold
LowestFreeId ==
    CHOOSE id \in 1..(nextId + 1) :
        /\ id \notin DOMAIN articles
        /\ \A k \in 1..(id - 1) : k \in DOMAIN articles

\* uuidv4(), line 119: an id that was not handed out before
uuidv4 == nextId + 1

\* a run that stores its record in a Map of its own making
PersistAlone ==
    /\ pc = "persist"
    /\ nextId' = nextId + 1
    /\ \E createdAt \in Instants : article' = NewArticle(uuidv4, createdAt)
    /\ articles' = (article'.id :> article')
    /\ pc' = "returned"
    /\ UNCHANGED << optimization, prediction, entry, req, trendingTopics,
                    maxCandidates, i, articleCandidates, bestArticle,
                    finalArticle, performancePrediction, error, calls, fetches,
                    attempts, response, apiKey >>
    /\ UNCHANGED beyondRun

\* lines 117-146: the record is built, stored under a fresh uuid and returned
Persist ==
    /\ pc = "persist"
    /\ nextId' = nextId + 1
    /\ \E createdAt \in Instants : article' = NewArticle(uuidv4, createdAt)
    /\ articles' = (article'.id :> article') @@ articles
    /\ pc' = "returned"
    /\ UNCHANGED << optimization, prediction, entry, req, trendingTopics, maxCandidates, i, articleCandidates,
                    bestArticle, finalArticle, performancePrediction, error, calls, fetches,
                    attempts, response, apiKey >>
    /\ UNCHANGED beyondRun

-----------------------------------------------------------------------------
(* The handlers *)

\* errorHandler.js:3-44: statusCode = err.statusCode || 500
ErrorResponse(m) == [status |-> 500, success |-> FALSE, message |-> m]

\* ...(result.performance_prediction && { performance_prediction: ... })
WithPrediction(payload, a) ==
    IF a.performance_prediction.js # "null"
    THEN [k \in DOMAIN payload \cup {"performance_prediction"} |->
            IF k = "performance_prediction" THEN a.performance_prediction
            ELSE payload[k]]
    ELSE payload

\* articleController.generateAdvancedArticle, the payload of the 201
AdvancedPayload(a) ==
    WithPrediction(
        [status |-> 201, success |-> TRUE,
         article |-> a.result,
         trending_topics_analyzed |-> a.trending_topics_analyzed,
         candidates_generated |-> a.candidates_generated],
        a)

RespondAdvanced ==
    /\ entry = "advanced"
    /\ \/ pc = "returned" /\ response' = AdvancedPayload(article)
       \/ pc = "threw" /\ response' = ErrorResponse(error)
    /\ pc' = "done"
    /\ UNCHANGED << optimization, prediction, entry, req, trendingTopics, maxCandidates, i, articleCandidates,
                    bestArticle, finalArticle, performancePrediction, article,
                    error, calls, fetches, attempts, articles, nextId, apiKey >>
    /\ UNCHANGED beyondRun

\* generateArticle line 224:
\* result.result.optimized_article || result.result.selected_article
AuthoritativeArticle(result) ==
    IF Has(result, "optimized_article") THEN result.optimized_article
    ELSE IF Has(result, "selected_article") THEN result.selected_article
    ELSE Undefined

\* generateArticle lines 226-240; countWords(finalArticle.content) is
\* text.trim() of line 352 and throws a TypeError on undefined
LegacyPayload(a) ==
    LET final == AuthoritativeArticle(a.result)
    IN  IF final.js # "object" \/ ~Has(final, "content")
        THEN ErrorResponse(TypeError)
        ELSE [status |-> 201, success |-> TRUE, id |-> a.id,
              title |-> IF Has(final, "title") THEN final.title ELSE Undefined,
              content |-> final.content,
              seoData |-> a.performance_prediction]

RespondLegacy ==
    /\ entry = "legacy"
    /\ \/ pc = "returned" /\ response' = LegacyPayload(article)
       \/ pc = "threw" /\ response' = ErrorResponse(error)
    /\ pc' = "done"
    /\ UNCHANGED << optimization, prediction, entry, req, trendingTopics, maxCandidates, i, articleCandidates,
                    bestArticle, finalArticle, performancePrediction, article,
                    error, calls, fetches, attempts, articles, nextId, apiKey >>
    /\ UNCHANGED beyondRun

\* generateBatchArticles lines 162-194 for one topic, and the 201 of
\* articleController.generateBatchArticles
RespondBatch ==
    /\ entry = "batch"
    /\ \/ /\ pc = "returned"
          /\ response' = [status |-> 201, success |-> TRUE,
                          batch_results |->
                            << [topic |-> req.topic, index |-> 0,
                                status |-> "success", article_id |-> article.id] >>,
                          successful_generations |-> 1]
       \/ /\ pc = "threw"
          /\ response' = [status |-> 201, success |-> TRUE,
                          batch_results |->
                            << [topic |-> req.topic, index |-> 0,
                                status |-> "error", error |-> error] >>,
                          successful_generations |-> 0]
    /\ pc' = "done"
    /\ UNCHANGED << optimization, prediction, entry, req, trendingTopics, maxCandidates, i, articleCandidates,
                    bestArticle, finalArticle, performancePrediction, article,
                    error, calls, fetches, attempts, articles, nextId, apiKey >>
    /\ UNCHANGED beyondRun

Next ==
    \/ Start
    \/ Stage1Resolve
    \/ Stage2Call
    \/ Stage2Resolve
    \/ Stage2AllFailed
    \/ Stage3Call
    \/ Stage3Resolve
    \/ Stage4Call
    \/ Stage4Skip
    \/ Stage4Resolve
    \/ Stage5Call
    \/ Stage5Skip
    \/ Stage5Resolve
    \/ Persist
    \/ RespondAdvanced
    \/ RespondLegacy
    \/ RespondBatch

Spec == Init /\ [][Next]_vars

-----------------------------------------------------------------------------
(* OpenAIService.callOpenAIAPI on its own: one call, with either value of *)
(* returnJSON, for any task type and anything the upstream may deliver     *)

\* the call is made: README.md:447-484
Invoke ==
    /\ invocation = NotCalled
    /\ \E returnJSON \in BOOLEAN : \E taskType \in TaskTypes :
        invocation' = [called |-> TRUE, returnJSON |-> returnJSON,
                       taskType |-> taskType, upstream |-> NotCalled]
    /\ UNCHANGED << pc, entry, req, trendingTopics, maxCandidates, i,
                    articleCandidates, bestArticle, finalArticle,
                    performancePrediction, article, error, calls, fetches, attempts,
                    optimization, prediction, articles, nextId, response,
                    apiKey, settled >>
    /\ UNCHANGED << upstreamStatuses, batch, topics, sharedParams, index,
                    results, pauses, served, body,
                    envKey, suspended, hung >>

\* lines 448-450: without a key the call throws before it fetches
SettleUnfetched ==
    /\ invocation # NotCalled
    /\ settled = NotCalled
    /\ apiKey = "undefined"
    /\ settled' = callOpenAIAPIOn(apiKey, invocation.returnJSON,
                                  invocation.taskType, NotCalled)
    /\ UNCHANGED << pc, entry, req, trendingTopics, maxCandidates, i,
                    articleCandidates, bestArticle, finalArticle,
                    performancePrediction, article, error, calls, fetches, attempts,
                    optimization, prediction, articles, nextId, response,
                    apiKey, invocation >>
    /\ UNCHANGED << upstreamStatuses, batch, topics, sharedParams, index,
                    results, pauses, served, body,
                    envKey, suspended, hung >>

\* lines 486-534: fetch settles and the call returns or throws
Settle ==
    /\ invocation # NotCalled
    /\ settled = NotCalled
    /\ apiKey # "undefined"
    /\ \E resp \in UpstreamBodies(invocation.taskType) :
        /\ invocation' = [invocation EXCEPT !.upstream = resp]
        /\ settled' = callOpenAIAPIOn(apiKey, invocation.returnJSON,
                                      invocation.taskType, resp)
    /\ UNCHANGED << pc, entry, req, trendingTopics, maxCandidates, i,
                    articleCandidates, bestArticle, finalArticle,
                    performancePrediction, article, error, calls, fetches, attempts,
                    optimization, prediction, articles, nextId, response,
                    apiKey >>
    /\ UNCHANGED << upstreamStatuses, batch, topics, sharedParams, index,
                    results, pauses, served, body,
                    envKey, suspended, hung >>

ClientNext ==
    \/ Invoke
    \/ SettleUnfetched
    \/ Settle

ClientSpec == Init /\ [][ClientNext]_vars

-----------------------------------------------------------------------------
(* articleService.generateBatchArticles, behind the generate-batch handler *)

BatchTopicNames == {"AI in Education", "Future of Work"}

\* validation.js:85-91: one to five topics
BatchTopics == UNION {[1..n -> BatchTopicNames] : n \in 1..MaxBatch}

\* the body without topics, articleController.generateBatchArticles
BatchShared ==
    {[article_count |-> Num(MinArticleCount), auto_optimize |-> b,
      include_analytics |-> b] : b \in BOOLEAN}

\* line 164: { topic, ...sharedParams }
RequestData(topic, shared) == shared @@ [topic |-> topic]

\* lines 168-174
SuccessEntry(topic, k, result) ==
    [topic |-> topic, index |-> k, status |-> "success",
     article_id |-> result.id]

\* lines 180-185
ErrorEntry(topic, k, message) ==
    [topic |-> topic, index |-> k, status |-> "error", error |-> message]

\* line 166: the awaited run has returned
Resolved == pc = "returned"

\* the catch of line 179 taken while the run is still in flight
RejectedOrPending == pc # "returned"

\* lines 166 and 179: the awaited run has thrown
Rejected == pc = "threw"

\* line 175: index < topics.length - 1
MoreTopics == index < Len(topics) - 1

\* the loop of line 161 left at the first failure
NoNext == FALSE

\* line 161: topics.entries() has another entry
HasNext == index + 1 < Len(topics)

\* lines 189-194 and the 201 of the handler
BatchResponse(batch_results) ==
    [status |-> 201, success |-> TRUE,
     batch_results |-> batch_results,
     total_topics |-> Len(topics),
     successful_generations |->
        Cardinality({k \in 1..Len(batch_results) :
                        batch_results[k].status = "success"})]

\* the loop is over: the result is returned and the handler answers
BatchReturn(batch_results) ==
    /\ batch' = "returned"
    /\ response' = BatchResponse(batch_results)
    /\ pc' = "done"
    /\ UNCHANGED index
    /\ UNCHANGED runLocals

\* the handler splits the body and the loop starts the run of topics[0]
BatchStart ==
    /\ pc = "idle"
    /\ batch = "none"
    /\ \E ts \in BatchTopics : \E shared \in BatchShared :
        /\ topics' = ts
        /\ sharedParams' = shared
        /\ BeginRun(RequestData(ts[1], shared))
    /\ entry' = "batch"
    /\ batch' = "running"
    /\ index' = 0
    /\ results' = << >>
    /\ pauses' = {}
    /\ response' = [status |-> 0]
    /\ UNCHANGED << articles, nextId, apiKey, invocation, settled,
                    upstreamStatuses, served, body,
                    envKey, suspended, hung >>

\* lines 166-177: the run returned; its entry is pushed, and the loop waits
\* 2000 ms unless this was the last topic
BatchRunReturned ==
    /\ batch = "running"
    /\ Resolved
    /\ results' = Append(results, SuccessEntry(topics[index + 1], index, article))
    /\ IF MoreTopics
       THEN /\ batch' = "paused"
            /\ pauses' = pauses \cup {index}
            /\ UNCHANGED << pc, index, response >>
            /\ UNCHANGED runLocals
       ELSE /\ BatchReturn(results')
            /\ UNCHANGED pauses
    /\ UNCHANGED << entry, topics, sharedParams, articles, nextId, apiKey,
                    invocation, settled, upstreamStatuses, served, body,
                    envKey, suspended, hung >>

\* a timer that never fires
PauseNeverOver ==
    /\ batch = "paused"
    /\ UNCHANGED vars

\* line 176 resolves and the loop starts the run of the next topic
PauseOver ==
    /\ batch = "paused"
    /\ batch' = "running"
    /\ index' = index + 1
    /\ BeginRun(RequestData(topics[index' + 1], sharedParams))
    /\ UNCHANGED << entry, topics, sharedParams, results, pauses, response,
                    articles, nextId, apiKey, invocation, settled,
                    upstreamStatuses, served, body,
                    envKey, suspended, hung >>

\* lines 179-186: the run threw; its entry is pushed and the loop goes on
\* with the next topic at once
BatchRunThrew ==
    /\ batch = "running"
    /\ Rejected
    /\ results' = Append(results, ErrorEntry(topics[index + 1], index, error))
    /\ IF HasNext
       THEN /\ index' = index + 1
            /\ BeginRun(RequestData(topics[index' + 1], sharedParams))
            /\ UNCHANGED << batch, response >>
       ELSE BatchReturn(results')
    /\ UNCHANGED << entry, topics, sharedParams, pauses, articles, nextId,
                    apiKey, invocation, settled, upstreamStatuses, served, body,
                    envKey, suspended, hung >>

BatchNext ==
    \/ BatchStart
    \/ Stage1Resolve
    \/ Stage2Call
    \/ Stage2Resolve
    \/ Stage2AllFailed
    \/ Stage3Call
    \/ Stage3Resolve
    \/ Stage4Call
    \/ Stage4Skip
    \/ Stage4Resolve
    \/ Stage5Call
    \/ Stage5Skip
    \/ Stage5Resolve
    \/ Persist
    \/ BatchRunReturned
    \/ PauseOver
    \/ BatchRunThrew

BatchSpec == Boot(FlakyStatuses) /\ [][BatchNext]_vars

-----------------------------------------------------------------------------
(* The errors the handlers and validateRequest throw, and what the client   *)
(* is answered then                                                         *)

\* utils/ApiError: the error validateRequest and the handlers throw
ApiError(statusCode, message, errors) ==
    [statusCode |-> statusCode, message |-> message, errors |-> errors]

\* an error handler that answers 500 with the message alone
errorHandlerBare(err) ==
    [status |-> 500, success |-> FALSE, message |-> err.message]

\* errorHandler.js:3-44 for an ApiError: err.statusCode, err.message and,
\* when there are any, err.errors
errorHandler(err) ==
    IF err.errors = << >>
    THEN [status |-> err.statusCode, success |-> FALSE, message |-> err.message]
    ELSE [status |-> err.statusCode, success |-> FALSE, message |-> err.message,
          errors |-> err.errors]

-----------------------------------------------------------------------------
(* The store: the handlers that read and delete records, between and during *)
(* runs of generate-advanced                                                *)

\* two clients: one asks for an article as selected, the other for an
\* optimized one; neither asks for analytics, so stage 5 is skipped
StoreRequests ==
    { [topic |-> "AI in Education", article_count |-> Num(MinArticleCount),
       auto_optimize |-> FALSE, include_analytics |-> FALSE],
      [topic |-> "Future of Work", article_count |-> Num(MinArticleCount),
       auto_optimize |-> TRUE, include_analytics |-> FALSE] }

\* the ids a client may ask for: those handed out, and one never handed out
Ids == 0..MaxStored

\* a lookup that falls back on some record when the id is not a key
getSomeArticle(store, id) ==
    IF id \in DOMAIN store THEN store[id]
    ELSE IF store = << >> THEN JsonNull
    ELSE store[CHOOSE k \in DOMAIN store : TRUE]

\* getArticleById, lines 310-312: articles.get(id) || null
getArticleById(store, id) ==
    IF id \in DOMAIN store THEN store[id] ELSE JsonNull

\* a delete that empties the Map
clear(store, id) == << >>

\* deleteArticle, lines 314-316: the Map after articles.delete(id)
deleteArticle(store, id) == [k \in DOMAIN store \ {id} |-> store[k]]

\* getAllArticles, lines 318-320: Array.from(articles.values()), in the
\* order of insertion, which is the order in which the ids were handed out
getAllArticles(store) ==
    [k \in 1..Cardinality(DOMAIN store) |->
        store[CHOOSE id \in DOMAIN store :
                Cardinality({j \in DOMAIN store : j <= id}) = k]]

\* getArticleStats, lines 328-349, without by_length and
\* average_processing_time, which read fields the records here do not carry;
\* by_tone has one bucket for each of config.validTones
getArticleStats(store) ==
    LET allArticles == getAllArticles(store)
        Count(P(_)) == Cardinality({k \in 1..Len(allArticles) : P(allArticles[k])})
    IN  [total_articles |-> Len(allArticles),
         by_status |->
            [generated |-> Count(LAMBDA a : a.status = "generated"),
             optimized |-> Count(LAMBDA a : a.auto_optimize)],
         by_tone |->
            [tone \in {"professional", "casual", "analytical",
                       "conversational", "authoritative", "engaging"} |->
                Count(LAMBDA a : a.tone = tone)]]

\* the answer of a handler of the store
Answer(op, fields) == fields @@ [op |-> op, seq |-> 1 - served.seq]

\* a request to generate-advanced: the earlier one, if any, was answered
Request ==
    /\ pc \in {"idle", "done"}
    /\ nextId < MaxStored
    /\ \E r \in StoreRequests : BeginRun(r)
    /\ entry' = "advanced"
    /\ response' = [status |-> 0]
    /\ UNCHANGED << articles, nextId, apiKey >>
    /\ UNCHANGED beyondRun

\* GET /:id, articleController.getArticle
GetArticle ==
    /\ \E id \in Ids :
        LET found == getArticleById(articles, id)
        IN  served' = Answer("getArticle",
                             IF found = JsonNull
                             THEN [id |-> id, data |-> found]
                                  @@ errorHandler(ApiError(404, "Article not found", << >>))
                             ELSE [id |-> id, status |-> 200, success |-> TRUE,
                                   data |-> found])
    /\ UNCHANGED << pc, entry, response, articles, nextId, apiKey, invocation,
                    settled, upstreamStatuses, batch, topics, sharedParams,
                    index, results, pauses, body, envKey, suspended, hung >>
    /\ UNCHANGED runLocals

\* a handler that answers 200 whatever articleService.deleteArticle returned
DeleteArticleBlind ==
    /\ \E id \in Ids :
        /\ articles' = deleteArticle(articles, id)
        /\ served' = Answer("deleteArticle",
                            [id |-> id, deleted |-> id \in DOMAIN articles,
                             status |-> 200, success |-> TRUE])
    /\ UNCHANGED << pc, entry, response, nextId, apiKey, invocation,
                    settled, upstreamStatuses, batch, topics, sharedParams,
                    index, results, pauses, body, envKey, suspended, hung >>
    /\ UNCHANGED runLocals

\* DELETE /:id, articleController.deleteArticle; deleted is what
\* articles.delete(id) of line 315 returns
DeleteArticle ==
    /\ \E id \in Ids :
        LET deleted == id \in DOMAIN articles
        IN  /\ articles' = deleteArticle(articles, id)
            /\ served' = Answer("deleteArticle",
                                IF deleted
                                THEN [id |-> id, deleted |-> deleted,
                                      status |-> 200, success |-> TRUE]
                                ELSE [id |-> id, deleted |-> deleted]
                                     @@ errorHandler(ApiError(404, "Article not found", << >>)))
    /\ UNCHANGED << pc, entry, response, nextId, apiKey, invocation,
                    settled, upstreamStatuses, batch, topics, sharedParams,
                    index, results, pauses, body, envKey, suspended, hung >>
    /\ UNCHANGED runLocals

\* GET /, articleController.getAllArticles without filters
GetAllArticles ==
    /\ served' = Answer("getAllArticles",
                        [status |-> 200, data |-> getAllArticles(articles)])
    /\ UNCHANGED << pc, entry, response, articles, nextId, apiKey, invocation,
                    settled, upstreamStatuses, batch, topics, sharedParams,
                    index, results, pauses, body, envKey, suspended, hung >>
    /\ UNCHANGED runLocals

\* a statistics handler that empties the Map as it counts
GetArticleStatsDraining ==
    /\ served' = Answer("getArticleStats",
                        [status |-> 200, data |-> getArticleStats(articles),
                         store |-> articles])
    /\ articles' = << >>
    /\ UNCHANGED << pc, entry, response, nextId, apiKey, invocation,
                    settled, upstreamStatuses, batch, topics, sharedParams,
                    index, results, pauses, body, envKey, suspended, hung >>
    /\ UNCHANGED runLocals

\* GET /stats, articleController.getArticleStats; store is the Map the
\* answer was computed from
GetArticleStats ==
    /\ served' = Answer("getArticleStats",
                        [status |-> 200, data |-> getArticleStats(articles),
                         store |-> articles])
    /\ UNCHANGED << pc, entry, response, articles, nextId, apiKey, invocation,
                    settled, upstreamStatuses, batch, topics, sharedParams,
                    index, results, pauses, body, envKey, suspended, hung >>
    /\ UNCHANGED runLocals

StoreNext ==
    \/ Request
    \/ Stage1Resolve
    \/ Stage2Call
    \/ Stage2Resolve
    \/ Stage2AllFailed
    \/ Stage3Call
    \/ Stage3Resolve
    \/ Stage4Call
    \/ Stage4Skip
    \/ Stage4Resolve
    \/ Stage5Skip
    \/ Persist
    \/ RespondAdvanced
    \/ GetArticle
    \/ DeleteArticle
    \/ GetAllArticles
    \/ GetArticleStats

StoreSpec == Boot(FlakyStatuses) /\ [][StoreNext]_vars

-----------------------------------------------------------------------------
(* The validation chains of validation.js and validateRequest, between a    *)
(* request body and the handlers of generate-advanced and generate-batch.   *)
(* The rate limiter in front of them has let the request pass. A value of a *)
(* body is a record with its JavaScript type in js; no topic here holds a   *)
(* character that trim() or escape() changes.                               *)

\* validation.js:86  isArray({ min: 1, max: 5 })
MaxBatchTopics == 5

\* config.js:56-60  Object.keys(config.lengthSpecs)
lengthSpecs == {"short", "medium", "long"}

\* config.js:63
validTones == {"professional", "casual", "analytical", "conversational",
               "authoritative", "engaging"}

\* validation.js:9-152 and 174-180: the errors the chains of a route leave in the
\* request, in the order of the chains. A validator reads the value as a
\* string; optional() skips a field that is undefined.
validationRules(route, b) ==
    LET notEmpty(v) == v.js # "undefined" /\ ~(v.js = "string" /\ v.text = "")
        isLength(v, min, max) ==
            v.js = "string" /\ Len(v.text) >= min /\ Len(v.text) <= max
        isInt(v, min, max) ==
            /\ v.js = "number" /\ ~v.num.nan /\ ~v.num.half
            /\ v.num.int >= min /\ v.num.int <= max
        isIn(v, values) == v.js = "string" /\ v.text \in values
        isBoolean(v) ==
            \/ v.js = "boolean"
            \/ v.js = "string" /\ v.text \in {"true", "false", "1", "0"}
        isArray(v, min, max) ==
            v.js = "array" /\ Len(v.items) >= min /\ Len(v.items) <= max
        Check(ok, field, message) ==
            IF ok THEN << >>
            ELSE << [path |-> field, msg |-> message, value |-> b[field]] >>
        optional(field, ok, message) ==
            IF b[field].js = "undefined" THEN << >> ELSE Check(ok, field, message)
        RECURSIVE each(_)
        each(k) ==
            IF b.topics.js # "array" \/ k > Len(b.topics.items) THEN << >>
            ELSE LET v == b.topics.items[k]
                     Fail(ok, message) ==
                        IF ok THEN << >>
                        ELSE << [path |-> "topics.*", msg |-> message,
                                 value |-> v] >>
                 IN  Fail(notEmpty(v), "Each topic must be non-empty")
                     \o Fail(isLength(v, 3, 200),
                             "Each topic must be between 3 and 200 characters")
                     \o each(k + 1)
        shared ==
            optional("content_length", isIn(b.content_length, lengthSpecs),
                     "Content length must be one of: short, medium, long")
            \o optional("tone", isIn(b.tone, validTones), "Tone must be one of: professional, casual, analytical, conversational, authoritative, engaging")
    IN  CASE route = "generate-advanced" ->
                Check(notEmpty(b.topic), "topic", "Topic is required")
                \o Check(isLength(b.topic, 3, 200), "topic",
                         "Topic must be between 3 and 200 characters")
                \o optional("article_count",
                            isInt(b.article_count, MinArticleCount, MaxArticleCount),
                            "Article count must be between 1 and 5")
                \o shared
                \o optional("auto_optimize", isBoolean(b.auto_optimize),
                            "Auto optimize must be a boolean")
                \o optional("include_analytics", isBoolean(b.include_analytics),
                            "Include analytics must be a boolean")
          [] route = "generate-batch" ->
                Check(isArray(b.topics, 1, MaxBatchTopics), "topics",
                      "Topics must be an array with 1-5 items")
                \o each(1)
                \o shared
                \o optional("auto_optimize", isBoolean(b.auto_optimize),
                            "Auto optimize must be a boolean")
                \o optional("include_analytics", isBoolean(b.include_analytics),
                            "Include analytics must be a boolean")
          [] route = "generate" ->
                Check(notEmpty(b.topic), "topic", "Topic is required")
                \o Check(isLength(b.topic, 3, 200), "topic",
                         "Topic must be between 3 and 200 characters")
                \o optional("tone",
                            isIn(b.tone, {"professional", "casual", "academic",
                                          "creative"}),
                            "Tone must be one of: professional, casual, academic, creative")
                \o optional("wordCount", isInt(b.wordCount, 100, 5000),
                            "Word count must be between 100 and 5000")
                \o optional("seoOptimized", isBoolean(b.seoOptimized),
                            "seoOptimized must be a boolean")
          [] route = "configure" ->
                Check(notEmpty(b.openai_api_key), "openai_api_key",
                      "OpenAI API key is required")
                \o Check(b.openai_api_key.js = "string"
                            /\ Len(b.openai_api_key.text) >= 20,
                         "openai_api_key",
                         "API key appears to be invalid (too short)")

\* a validateRequest that calls next() whatever the chains found
validateRequestLenient(errors) == [threw |-> FALSE]

\* validation.js:226-240: the errors of the chains are thrown as one
\* ApiError; without any the request goes on to its handler
validateRequest(errors) ==
    IF errors # << >>
    THEN [threw |-> TRUE,
          err |-> ApiError(400, "Validation failed",
                           [k \in 1..Len(errors) |->
                               [field |-> errors[k].path,
                                message |-> errors[k].msg,
                                value |-> errors[k].value]])]
    ELSE [threw |-> FALSE]

\* the bodies generate-advanced receives. Two pass the chains: one leaves
\* every optional field to its default, the other asks for one candidate, no
\* optimization and no analytics. The others are these two and the empty
\* body, each with one field replaced by a value a rule rejects.
AdvancedBodies ==
    LET With(b, fv) == [b EXCEPT ![fv[1]] = fv[2]]
        empty == [f \in {"topic", "article_count", "content_length", "tone",
                         "auto_optimize", "include_analytics"} |-> Undefined]
        valid ==
            { [empty EXCEPT !.topic = Text("AI in Healthcare")],
              [topic |-> Text("AI in Healthcare"),
               article_count |-> [js |-> "number", num |-> Num(MinArticleCount)],
               content_length |-> Text("long"), tone |-> Text("casual"),
               auto_optimize |-> [js |-> "boolean", bool |-> FALSE],
               include_analytics |-> [js |-> "boolean", bool |-> FALSE]] }
        invalid ==
            { << "topic", Undefined >>, << "topic", Text("") >>,
              << "topic", Text("AI") >>,
              << "article_count",
                 [js |-> "number", num |-> Num(MinArticleCount - 1)] >>,
              << "article_count",
                 [js |-> "number", num |-> Num(MaxArticleCount + 1)] >>,
              << "article_count",
                 [js |-> "number", num |-> NumHalf(MinArticleCount)] >>,
              << "content_length", Text("invalid_length") >>,
              << "tone", Text("invalid_tone") >>,
              << "auto_optimize", Text("yes") >>,
              << "include_analytics", Text("no") >> }
    IN  valid \cup {With(b, fv) : b \in valid \cup {empty}, fv \in invalid}

\* articleController.generateAdvancedArticle, part_001:124-152, after the
\* sanitizers toInt() and toBoolean(): what the handler passes on
AdvancedArticleData(b) ==
    LET toBoolean(v) ==
            IF v.js = "boolean" THEN v.bool ELSE v.text \in {"true", "1"}
        Or(v, default) == IF v.js = "undefined" THEN default ELSE v
    IN  [topic |-> IF b.topic.js = "string" THEN b.topic.text ELSE "undefined",
         article_count |-> Or(b.article_count,
                              [js |-> "number", num |-> Num(DefaultArticleCount)]).num,
         content_length |-> Or(b.content_length, Text("medium")).text,
         tone |-> Or(b.tone, Text("professional")).text,
         auto_optimize |-> toBoolean(Or(b.auto_optimize,
                                        [js |-> "boolean", bool |-> TRUE])),
         include_analytics |-> toBoolean(Or(b.include_analytics,
                                            [js |-> "boolean", bool |-> TRUE]))]

\* a client sends a further request once each of its earlier ones has stored
\* a record, and MaxStored requests at most
Awaited == body.seq <= nextId /\ body.seq < MaxStored

\* POST /v1/generate-advanced, part_001:25-30: the chains, validateRequest
\* and, unless it threw, the handler, which starts the run
PostGenerateAdvanced ==
    /\ pc \in {"idle", "done"}
    /\ batch \in {"none", "returned"}
    /\ Awaited
    /\ \E b \in AdvancedBodies :
        LET checked == validateRequest(validationRules("generate-advanced", b))
        IN  /\ body' = [route |-> "generate-advanced", seq |-> body.seq + 1,
                         json |-> b]
            /\ IF checked.threw
               THEN /\ response' = errorHandler(checked.err)
                    /\ UNCHANGED << pc, entry >>
                    /\ UNCHANGED runLocals
               ELSE /\ BeginRun(AdvancedArticleData(b))
                    /\ entry' = "advanced"
                    /\ response' = [status |-> 0]
    /\ UNCHANGED << articles, nextId, apiKey, invocation, settled,
                    upstreamStatuses, batch, topics, sharedParams, index,
                    results, pauses, served, envKey, suspended, hung >>

\* bodies of generate-batch: topics arrays of one and of two entries, the
\* empty one, one of six entries and one with an entry too short; a body
\* that carries a topic of its own next to topics, and one whose
\* article_count is above the range (validation.js:84-118 has no chain for
\* either field)
BatchBodies ==
    LET Of(ts) == [topics |-> [js |-> "array", items |-> ts],
                   article_count |-> [js |-> "number", num |-> Num(MinArticleCount)],
                   content_length |-> Undefined, tone |-> Undefined,
                   auto_optimize |-> [js |-> "boolean", bool |-> FALSE],
                   include_analytics |-> [js |-> "boolean", bool |-> FALSE]]
    IN  {Of([k \in 1..n |-> Text("Future of Work")]) :
            n \in {0, 1, 2, MaxBatchTopics + 1}}
        \cup {Of(<< Text("AI") >>)}
        \cup {Of(<< Text("Future of Work") >>)
                @@ [topic |-> Text("Quantum Computing")]}
        \cup {[Of(<< Text("Future of Work") >>) EXCEPT
                !.article_count =
                    [js |-> "number", num |-> Num(MaxArticleCount + 1)]]}

\* POST /v1/generate-batch, part_001:33-38 and 173-179: the chains,
\* validateRequest and, unless it threw, the handler, which splits the body
\* and starts the loop with the run of topics[0]; over no topic at all the
\* loop of articleService.js:161 would end at once
PostGenerateBatch ==
    /\ pc \in {"idle", "done"}
    /\ batch \in {"none", "returned"}
    /\ Awaited
    /\ \E b \in BatchBodies :
        LET checked == validateRequest(validationRules("generate-batch", b))
            ts == [k \in 1..Len(b.topics.items) |-> b.topics.items[k].text]
            rest == [article_count |-> b.article_count.num,
                     auto_optimize |-> b.auto_optimize.bool,
                     include_analytics |-> b.include_analytics.bool]
            shared == IF "topic" \in DOMAIN b
                      THEN rest @@ [topic |-> b.topic.text]
                      ELSE rest
        IN  /\ body' = [route |-> "generate-batch", seq |-> body.seq + 1,
                         json |-> b]
            /\ IF checked.threw
               THEN /\ response' = errorHandler(checked.err)
                    /\ UNCHANGED << pc, entry, batch, topics, sharedParams,
                                    index, results, pauses >>
                    /\ UNCHANGED runLocals
               ELSE /\ topics' = ts
                    /\ sharedParams' = shared
                    /\ entry' = "batch"
                    /\ index' = 0
                    /\ results' = << >>
                    /\ pauses' = {}
                    /\ IF ts = << >>
                       THEN /\ batch' = "returned"
                            /\ response' = [status |-> 201, success |-> TRUE,
                                            batch_results |-> << >>,
                                            total_topics |-> 0,
                                            successful_generations |-> 0]
                            /\ UNCHANGED pc
                            /\ UNCHANGED runLocals
                       ELSE /\ batch' = "running"
                            /\ BeginRun(RequestData(ts[1], shared))
                            /\ response' = [status |-> 0]
    /\ UNCHANGED << articles, nextId, apiKey, invocation, settled,
                    upstreamStatuses, served, envKey, suspended, hung >>

GateNext ==
    \/ PostGenerateAdvanced
    \/ PostGenerateBatch
    \/ Stage1Resolve
    \/ Stage2Call
    \/ Stage2Resolve
    \/ Stage2AllFailed
    \/ Stage3Call
    \/ Stage3Resolve
    \/ Stage4Call
    \/ Stage4Skip
    \/ Stage4Resolve
    \/ Stage5Call
    \/ Stage5Skip
    \/ Stage5Resolve
    \/ Persist
    \/ RespondAdvanced
    \/ BatchRunReturned
    \/ PauseOver
    \/ BatchRunThrew

GateSpec == Boot(FlakyStatuses) /\ [][GateNext]_vars

-----------------------------------------------------------------------------
(* The configure endpoint, next to requests to generate-advanced            *)

\* the bodies configure receives: without a key, with one too short and
\* with one that passes
ConfigureBodies ==
    {[openai_api_key |-> k] :
        k \in {Undefined, Text("sk-short"), Text("sk-configured-at-runtime")}}

\* POST /v1/configure, part_001:41-45 and 303-314: the chain,
\* validateRequest and the handler, which sets the variable of the
\* environment and answers; it is served at any moment of a run
PostConfigure ==
    /\ \E b \in ConfigureBodies :
        LET checked == validateRequest(validationRules("configure", b))
        IN  IF checked.threw
            THEN /\ served' = Answer("configure", errorHandler(checked.err))
                 /\ UNCHANGED envKey
            ELSE /\ envKey' = b.openai_api_key.text
                 /\ served' = Answer("configure",
                                     [status |-> 200, success |-> TRUE,
                                      api_key_configured |-> TRUE,
                                      key |-> b.openai_api_key.text])
    /\ UNCHANGED << pc, entry, response, articles, nextId, apiKey, invocation,
                    settled, upstreamStatuses, batch, topics, sharedParams,
                    index, results, pauses, body, suspended, hung >>
    /\ UNCHANGED runLocals

\* GET /v1/health, part_001:350-363: api_key_configured is
\* !!config.openai.apiKey, the value config.js:19 read when the module was
\* loaded and the one the service holds a copy of
HealthCheck ==
    /\ served' = Answer("healthCheck",
                        [status |-> 200, success |-> TRUE,
                         api_key_configured |-> apiKey # "undefined",
                         total_articles_generated |->
                            getArticleStats(articles).total_articles])
    /\ UNCHANGED << pc, entry, response, articles, nextId, apiKey, invocation,
                    settled, upstreamStatuses, batch, topics, sharedParams,
                    index, results, pauses, body, envKey, suspended, hung >>
    /\ UNCHANGED runLocals

ConfigNext ==
    \/ PostConfigure
    \/ HealthCheck
    \/ Request
    \/ Stage1Resolve
    \/ Stage2Call
    \/ Stage2Resolve
    \/ Stage2AllFailed
    \/ Stage3Call
    \/ Stage3Resolve
    \/ Stage4Call
    \/ Stage4Skip
    \/ Stage4Resolve
    \/ Stage5Skip
    \/ Persist
    \/ RespondAdvanced

ConfigSpec == Boot(FlakyStatuses) /\ [][ConfigNext]_vars

-----------------------------------------------------------------------------
(* The legacy endpoint: POST /generate, articleController.generateArticle   *)
(* and articleService.generateArticle in front of the orchestrator, which   *)
(* always predicts the performance: stage 5 is never skipped                *)

\* a mapping whose thresholds belong to the longer length
content_lengthInclusive(wordCount) ==
    IF JsLeq(Num(1500), wordCount) THEN "long"
    ELSE IF JsLeq(Num(1000), wordCount) THEN "medium"
    ELSE "short"

\* articleService.js:214
\* wordCount > 1500 ? 'long' : wordCount > 1000 ? 'medium' : 'short'
content_length(wordCount) ==
    IF JsLess(Num(1500), wordCount) THEN "long"
    ELSE IF JsLess(Num(1000), wordCount) THEN "medium"
    ELSE "short"

\* the bodies generate receives: word counts at the ends of the range the
\* chain admits and on both sides of each threshold, one outside the range,
\* and a body without a word count; keywords and includeImages, which no
\* stage reads, are left out
LegacyBodies ==
    [topic : {Text("AI in Healthcare")},
     tone : {Undefined},
     wordCount : {Undefined}
                 \cup {[js |-> "number", num |-> Num(n)] :
                        n \in {99, 100, 1000, 1001, 1500, 1501, 5000}},
     seoOptimized : {Undefined, [js |-> "boolean", bool |-> FALSE]}]
    \cup {[topic |-> Text("AI in Healthcare"), tone |-> Text("academic"),
           wordCount |-> Undefined, seoOptimized |-> Undefined]}

\* part_001:182-200 and articleService.js:200-219: the defaults of the
\* handler and of generateArticle, and advancedData
advancedData(b) ==
    LET Or(v, default) == IF v.js = "undefined" THEN default ELSE v
    IN  [topic |-> b.topic.text,
         tone |-> Or(b.tone, Text("professional")).text,
         content_length |->
            content_length(Or(b.wordCount, [js |-> "number", num |-> Num(1000)]).num),
         auto_optimize |-> Or(b.seoOptimized, [js |-> "boolean", bool |-> TRUE]).bool,
         include_analytics |-> TRUE,
         article_count |-> Num(1)]

\* POST /generate, part_001:81-86: the chain, validateRequest and, unless it
\* threw, the handler, which has generateArticle start the run
PostGenerate ==
    /\ pc \in {"idle", "done"}
    /\ Awaited
    /\ \E b \in LegacyBodies :
        LET checked == validateRequest(validationRules("generate", b))
        IN  /\ body' = [route |-> "generate", seq |-> body.seq + 1, json |-> b]
            /\ IF checked.threw
               THEN /\ response' = errorHandler(checked.err)
                    /\ UNCHANGED << pc, entry >>
                    /\ UNCHANGED runLocals
               ELSE /\ BeginRun(advancedData(b))
                    /\ entry' = "legacy"
                    /\ response' = [status |-> 0]
    /\ UNCHANGED << articles, nextId, apiKey, invocation, settled,
                    upstreamStatuses, batch, topics, sharedParams, index,
                    results, pauses, served, envKey, suspended, hung >>

LegacyNext ==
    \/ PostGenerate
    \/ Stage1Resolve
    \/ Stage2Call
    \/ Stage2Resolve
    \/ Stage2AllFailed
    \/ Stage3Call
    \/ Stage3Resolve
    \/ Stage4Call
    \/ Stage4Skip
    \/ Stage4Resolve
    \/ Stage5Call
    \/ Stage5Resolve
    \/ Persist
    \/ RespondLegacy

LegacySpec == Boot(FlakyStatuses) /\ [][LegacyNext]_vars

\* The three endpoints that generate, next to the handlers that delete and
\* count: a request is received when no run and no batch is under way
ReceiveLegacy == batch \in {"none", "returned"} /\ PostGenerate

\* the handlers of the store, served between two requests that generate
Settled == pc \in {"idle", "done"} /\ batch \in {"none", "returned"}
DeleteSettled == Settled /\ DeleteArticle
StatsSettled == Settled /\ GetArticleStats

TonesNext ==
    \/ PostGenerateAdvanced
    \/ PostGenerateBatch
    \/ ReceiveLegacy
    \/ Stage1Resolve
    \/ Stage2Call
    \/ Stage2Resolve
    \/ Stage3Call
    \/ Stage3Resolve
    \/ Stage4Call
    \/ Stage4Skip
    \/ Stage4Resolve
    \/ Stage5Call
    \/ Stage5Skip
    \/ Stage5Resolve
    \/ Persist
    \/ RespondAdvanced
    \/ RespondLegacy
    \/ BatchRunReturned
    \/ PauseOver
    \/ BatchRunThrew
    \/ DeleteSettled
    \/ StatsSettled

\* an upstream whose text never parses: every call returns its mock, and
\* no run finds every candidate failed
MockStatuses == {"unparseable"}

TonesSpec == Boot(MockStatuses) /\ [][TonesNext]_vars

-----------------------------------------------------------------------------
(* Two requests to generate-advanced in flight at once. Node runs one of    *)
(* them until it awaits the upstream; the other one, or a handler of the    *)
(* store, runs meanwhile. The run that steps is in pc, entry, response and  *)
(* the locals; suspended holds the one that waits.                          *)

\* the awaits of generateAdvancedArticle: articleService.js:41, 58, 77, 95
\* and 107
AwaitPoints == {"s1_wait", "s2_wait", "s3_wait", "s4_wait", "s5_wait"}

\* the run that steps, as it is set aside
Context ==
    [pc |-> pc, entry |-> entry, response |-> response, req |-> req,
     trendingTopics |-> trendingTopics, maxCandidates |-> maxCandidates,
     i |-> i, articleCandidates |-> articleCandidates,
     bestArticle |-> bestArticle, finalArticle |-> finalArticle,
     performancePrediction |-> performancePrediction, article |-> article,
     error |-> error, calls |-> calls, fetches |-> fetches,
     attempts |-> attempts,
     optimization |-> optimization, prediction |-> prediction]

\* the requests in flight at once: one of each of two clients
Clients == {1, 2}

\* a request to generate-advanced is received, the run in flight, if any,
\* awaiting the upstream; request is the number of the request
Receive ==
    /\ body.seq + 1 \in Clients
    /\ \/ pc \in {"idle", "done"} /\ UNCHANGED suspended
       \/ /\ pc \in AwaitPoints
          /\ IF suspended = << >> THEN TRUE ELSE suspended[1].pc = "done"
          /\ suspended' = << Context >>
    /\ \E r \in StoreRequests :
        /\ BeginRun(r @@ [request |-> body.seq + 1])
        /\ body' = [route |-> "generate-advanced", seq |-> body.seq + 1]
    /\ entry' = "advanced"
    /\ response' = [status |-> 0]
    /\ UNCHANGED << articles, nextId, apiKey, invocation, settled,
                    upstreamStatuses, batch, topics, sharedParams, index,
                    results, pauses, served, envKey, hung >>

\* the run that steps awaits, or has answered, and the other one goes on
Switch ==
    /\ pc \in AwaitPoints \cup {"done"}
    /\ suspended # << >>
    /\ suspended[1].pc # "done"
    /\ suspended' = << Context >>
    /\ LET c == suspended[1]
       IN  /\ pc' = c.pc
           /\ entry' = c.entry
           /\ response' = c.response
           /\ req' = c.req
           /\ trendingTopics' = c.trendingTopics
           /\ maxCandidates' = c.maxCandidates
           /\ i' = c.i
           /\ articleCandidates' = c.articleCandidates
           /\ bestArticle' = c.bestArticle
           /\ finalArticle' = c.finalArticle
           /\ performancePrediction' = c.performancePrediction
           /\ article' = c.article
           /\ error' = c.error
           /\ calls' = c.calls
           /\ fetches' = c.fetches
           /\ attempts' = c.attempts
           /\ optimization' = c.optimization
           /\ prediction' = c.prediction
    /\ UNCHANGED << articles, nextId, apiKey, invocation, settled,
                    upstreamStatuses, batch, topics, sharedParams, index,
                    results, pauses, served, body, envKey, hung >>

ConcurrentNext ==
    \/ Receive
    \/ Switch
    \/ Stage1Resolve
    \/ Stage2Call
    \/ Stage2Resolve
    \/ Stage2AllFailed
    \/ Stage3Call
    \/ Stage3Resolve
    \/ Stage4Call
    \/ Stage4Skip
    \/ Stage4Resolve
    \/ Stage5Skip
    \/ Persist
    \/ RespondAdvanced
    \/ GetArticle
    \/ DeleteArticle
    \/ GetAllArticles

ConcurrentSpec == Boot(FlakyStatuses) /\ [][ConcurrentNext]_vars

-----------------------------------------------------------------------------
(* Progress. No timeout is layered above fetch: a request the upstream     *)
(* never answers leaves its run at the await for ever. Node runs every     *)
(* continuation whose promise has settled, and the timer of line 176 fires. *)

\* the run that steps is one whose upstream call never resolves
Hung == "request" \in DOMAIN req /\ req.request \in hung

\* the upstream stops answering the request the run awaits
Hang ==
    /\ pc \in AwaitPoints
    /\ "request" \in DOMAIN req
    /\ ~Hung
    /\ fetches # << >>
    /\ fetches[Len(fetches)].pending
    /\ hung' = hung \cup {req.request}
    /\ UNCHANGED << pc, entry, response, articles, nextId, apiKey, invocation,
                    settled, upstreamStatuses, batch, topics, sharedParams,
                    index, results, pauses, served, body, envKey, suspended >>
    /\ UNCHANGED runLocals

\* a batch of one or two topics is received, no other request in flight
ReceiveBatch ==
    /\ body = NoBody
    /\ BatchStart
    /\ Len(topics') <= 2

\* a request to generate-advanced is received, no batch in flight
ReceiveAdvanced == batch = "none" /\ Receive

\* the awaited upstream call resolves
UpstreamResolves ==
    /\ ~Hung
    /\ \/ Stage1Resolve
       \/ Stage2Resolve
       \/ Stage3Resolve
       \/ Stage4Resolve
       \/ Stage5Resolve

\* the continuation of a call that does not wait for the upstream
Continues ==
    \/ Stage2Call
    \/ Stage2AllFailed
    \/ Stage3Call
    \/ Stage4Call
    \/ Stage4Skip
    \/ Stage5Call
    \/ Stage5Skip
    \/ Persist
    \/ RespondAdvanced
    \/ BatchRunReturned
    \/ PauseOver
    \/ BatchRunThrew

Progress == UpstreamResolves \/ Continues

LiveNext ==
    \/ ReceiveAdvanced
    \/ ReceiveBatch
    \/ Switch
    \/ Hang
    \/ UpstreamResolves
    \/ Continues

LiveSpec ==
    /\ Boot(FlakyStatuses)
    /\ [][LiveNext]_vars
    /\ SF_vars(Progress)
    /\ WF_vars(Switch)

-----------------------------------------------------------------------------
(* Properties *)

\* generateAdvancedArticle returned a record
Succeeded == article # Undefined

\* the run is past the loop of stage 2
Stage2Over ==
    /\ trendingTopics # Undefined
    /\ ~NoTopics(trendingTopics)
    /\ pc \notin {"s2", "s2_wait"}

Failed(outcome) == "threw" \in DOMAIN outcome /\ outcome.threw

Made(taskType) == \E k \in 1..Len(calls) : calls[k].taskType = taskType

NothingPersisted == article = Undefined /\ DOMAIN articles = {}

RECURSIVE ValuesReturned(_)
ValuesReturned(as) ==
    IF as = << >> THEN << >>
    ELSE IF Head(as).threw THEN ValuesReturned(Tail(as))
    ELSE << Head(as).value >> \o ValuesReturned(Tail(as))

\* C1: a run that returns an Article has candidates_generated >= 1, and so has
\* every stored record; a run whose loop produced no candidate ends with an
\* error, nothing returned and nothing stored.
C1_SuccessHasCandidate ==
    /\ Succeeded => article.candidates_generated >= 1
    /\ \A id \in DOMAIN articles : articles[id].candidates_generated >= 1
    /\ (Stage2Over /\ ValuesReturned(attempts) = << >>) =>
            (pc \in {"threw", "done"} /\ error # "none" /\ NothingPersisted)

C1_Witness ==
    /\ pc = "done"
    /\ Succeeded
    /\ article.candidates_generated = 1
    /\ Len(attempts) = 2

\* C2: for the record a run persists, candidates_generated <=
\* min(article_count, trending_topics_analyzed), article_count being the
\* number the run was started with.
C2_CandidatesWithinMin ==
    Succeeded =>
        JsLeq(Num(article.candidates_generated),
              MathMin(req.article_count, article.trending_topics_analyzed))

\* C3: when getTrendingTopics yields an empty list the run throws the
\* no-trends error and no stage method other than getTrendingTopics is called.
C3_NoTrendsAborts ==
    (trendingTopics # Undefined /\ trendingTopics.js = "array"
        /\ Len(trendingTopics.items) = 0) =>
            /\ pc \in {"threw", "done"}
            /\ error = NoTrendsError
            /\ calls = << Call("trending_analysis") >>
            /\ NothingPersisted

C3_Witness ==
    /\ pc = "threw"
    /\ trendingTopics = [js |-> "array", items |-> << >>]
    /\ error = NoTrendsError

\* the k with k < min(article_count, number of trending topics)
TopicsToAttempt ==
    {k \in 0..MaxTopics :
        JsLess(Num(k), MathMin(req.article_count, LengthOf(trendingTopics)))}

\* C4: in stage 2 one attempt is made for each topic index below
\* min(article_count, number of topics), in order and whatever the earlier
\* attempts gave; a failed attempt raises no error and adds nothing to the
\* candidate list, which holds the values of the successful attempts in order.
C4_LoopIsolatesFailures ==
    /\ pc \in {"s2", "s2_wait"} =>
            /\ error = "none"
            /\ Len(attempts) = i
            /\ i \in TopicsToAttempt \/ i = Cardinality(TopicsToAttempt)
            /\ Cardinality({k \in 1..Len(calls) :
                              calls[k].taskType = "article_generation"})
                    = IF pc = "s2_wait" THEN i + 1 ELSE i
    /\ Stage2Over => Len(attempts) = Cardinality(TopicsToAttempt)
    /\ (trendingTopics # Undefined /\ ~NoTopics(trendingTopics)) =>
            articleCandidates = ValuesReturned(attempts)

C4_Witness ==
    /\ pc = "s3_wait"
    /\ Len(attempts) = 2
    /\ attempts[1].threw
    /\ ~attempts[2].threw
    /\ Len(articleCandidates) = 1

\* C5: when every attempt of stage 2 failed the run throws the
\* all-candidates-failed error and neither selectBestArticle nor a later
\* stage method is called.
C5_AllFailedAborts ==
    (Stage2Over /\ \A k \in 1..Len(attempts) : attempts[k].threw) =>
        /\ pc \in {"threw", "done"}
        /\ error = AllCandidatesFailedError
        /\ ~Made("article_selection")
        /\ ~Made("article_optimization")
        /\ ~Made("performance_prediction")
        /\ NothingPersisted

C5_Witness ==
    /\ pc = "threw"
    /\ error = AllCandidatesFailedError
    /\ Len(attempts) = 2
    /\ attempts[1].threw /\ attempts[2].threw

\* the selection call was made and threw
SelectionCallFailed ==
    /\ pc \in {"threw", "done"}
    /\ calls # << >>
    /\ calls[Len(calls)].taskType = "article_selection"
    /\ bestArticle = Undefined

\* the selection call returned a response without selected_article
SelectionLacksField ==
    /\ bestArticle # Undefined
    /\ \/ bestArticle.js = "null"
       \/ "selected_article" \notin DOMAIN bestArticle
       \/ bestArticle.selected_article.js = "null"

SelectionAborted ==
    /\ pc \in {"threw", "done"}
    /\ finalArticle = Undefined
    /\ ~Made("article_optimization")
    /\ ~Made("performance_prediction")
    /\ NothingPersisted

\* the errors callOpenAIAPI throws
UpstreamErrors ==
    {"fetch failed", "OpenAI API error", "Invalid response from OpenAI API"}

\* C6 as stated: a selection response without selected_article, or a failed
\* selection call, makes the run throw the selection-failed error, with no
\* later stage call and nothing persisted.
C6_Original ==
    (SelectionLacksField \/ SelectionCallFailed) =>
        (error = SelectionFailedError /\ SelectionAborted)

\* C6 amended: a selection response without selected_article makes the run
\* throw the selection-failed error; a failed selection call makes it throw
\* that call's own error; either way no candidate stands in, no later stage
\* method is called and nothing is persisted.
C6_SelectionAborts ==
    /\ SelectionLacksField => (error = SelectionFailedError /\ SelectionAborted)
    /\ SelectionCallFailed => (error \in UpstreamErrors /\ SelectionAborted)

C6_Witness ==
    /\ pc = "threw"
    /\ SelectionCallFailed
    /\ error = "OpenAI API error"
    /\ Len(articleCandidates) = 2

\* C7: with auto_optimize set and the optimization call failed, the run goes
\* on without an error and the result of the record it returns and stores is
\* the selection result.
C7_OptimizationFailureKeepsSelection ==
    (req.auto_optimize /\ Failed(optimization)) =>
        /\ error = "none"
        /\ pc # "threw"
        /\ finalArticle = bestArticle
        /\ pc \in {"returned", "done"} =>
                /\ Succeeded
                /\ article.result = bestArticle
                /\ article.id \in DOMAIN articles
                /\ articles[article.id].result = bestArticle

C7_Witness ==
    /\ pc = "done"
    /\ req.auto_optimize
    /\ Failed(optimization)
    /\ Succeeded
    /\ Has(article.result, "selected_article")

\* C8: with include_analytics set and the prediction call failed, the run
\* returns a record whose performance_prediction is null and whose result is
\* what stages 3 and 4 left; the payload of generate-advanced is a 201
\* without a performance_prediction field.
C8_PredictionFailureOmitsField ==
    (req.include_analytics /\ Failed(prediction)) =>
        /\ error = "none"
        /\ pc \in {"persist", "returned", "done"}
        /\ performancePrediction = JsonNull
        /\ \/ finalArticle = bestArticle
           \/ ~Failed(optimization) /\ optimization # NotCalled
                /\ finalArticle = optimization.value
        /\ pc \in {"returned", "done"} =>
                /\ Succeeded
                /\ article.performance_prediction = JsonNull
                /\ article.result = finalArticle
                /\ articles[article.id] = article
        /\ (pc = "done" /\ entry = "advanced") =>
                /\ response.status = 201
                /\ "performance_prediction" \notin DOMAIN response
                /\ response.article = finalArticle

C8_Witness ==
    /\ pc = "done"
    /\ entry = "advanced"
    /\ req.include_analytics
    /\ Failed(prediction)
    /\ response.status = 201

Usable(a) == a.js = "object" /\ Has(a, "title") /\ Has(a, "content")

\* C10: the result of every stored record holds an authoritative article
\* (optimized_article, else selected_article) with a title and a content.
C10_ResultUsable ==
    \A id \in DOMAIN articles :
        Usable(AuthoritativeArticle(articles[id].result))

\* the title and the content a record carries, where it carries them
TitleAndContent(a) ==
    [f \in {"title", "content"} \cap DOMAIN a |-> a[f]]

\* C11: in a run that returns an Article, the selected article's
\* article_index is one of 0 .. candidates_generated - 1, and the selected
\* article is the candidate at that position of articleCandidates.
C11_SelectedIsCandidate ==
    Succeeded =>
        LET selected == bestArticle.selected_article
        IN  /\ "article_index" \in DOMAIN selected
            /\ selected.article_index \in 0..(article.candidates_generated - 1)
            /\ TitleAndContent(selected) =
                    TitleAndContent(articleCandidates[selected.article_index + 1])

\* the call taken on its own has settled, after the upstream delivered
Delivered ==
    /\ settled # NotCalled
    /\ invocation.upstream # NotCalled

\* an object of the shape the task's schema requires
Shaped(taskType, v) == Has(v, ExpectedField(taskType))

\* C12: whatever returnJSON is, a call whose upstream status is not a success
\* status, or whose body lacks choices[0].message.content, throws; it returns
\* no value, and so no mock.
C12_UpstreamErrorsSurface ==
    (Delivered /\ invocation.upstream.status \in {"http_error", "no_content"})
        => settled.threw

\* C13: whenever a call with returnJSON = true returns, the value is an object
\* of the shape expected for its task type, whatever text the upstream wrote.
C13_ReturnsExpectedShape ==
    (Delivered /\ invocation.returnJSON /\ ~settled.threw)
        => Shaped(invocation.taskType, settled.value)

\* the content the upstream wrote is not valid JSON
NotValidJSON ==
    /\ Delivered
    /\ invocation.upstream.status = "content"
    /\ JSONparse(invocation.upstream.content).threw

\* C14: if the content answering a trending_analysis call is not valid JSON,
\* the call does not throw: it returns an object whose trending_topics is a
\* non-empty array, the same object for the same input.
C14_InvalidJSONGivesTopics ==
    (NotValidJSON /\ invocation.returnJSON
        /\ invocation.taskType = "trending_analysis")
        => /\ ~settled.threw
           /\ Has(settled.value, "trending_topics")
           /\ settled.value.trending_topics.js = "array"
           /\ settled.value.trending_topics.items # << >>
           /\ settled = callOpenAIAPIOn(apiKey, TRUE, "trending_analysis",
                                        invocation.upstream)

\* the entry batch_results holds for topics[k - 1]
WellFormedEntry(k) ==
    LET e == results[k]
    IN  /\ e.topic = topics[k]
        /\ e.index = k - 1
        /\ \/ /\ e.status = "success"
              /\ DOMAIN e = {"topic", "index", "status", "article_id"}
              /\ e.article_id \in DOMAIN articles
           \/ /\ e.status = "error"
              /\ DOMAIN e = {"topic", "index", "status", "error"}
              /\ e.error # "none"

\* C15: generateBatchArticles returns one entry per input topic, in input
\* order, with index equal to the position; each entry is a success with an
\* article_id or an error with a message; a failed run neither stops the
\* runs of the later topics nor fails the batch.
C15_OneEntryPerTopic ==
    /\ Len(results) <= Len(topics)
    /\ \A k \in 1..Len(results) : WellFormedEntry(k)
    /\ batch = "running" => Len(results) = index
    /\ batch = "paused" => Len(results) = index + 1
    /\ batch = "returned" =>
            /\ Len(results) = Len(topics)
            /\ response.status = 201
            /\ response.batch_results = results
            /\ response.total_topics = Len(topics)

C15_Witness ==
    /\ batch = "returned"
    /\ Len(topics) = 3
    /\ results[1].status = "error"
    /\ results[2].status = "success"
    /\ results[3].status = "error"

\* C16: the runs of a batch are strictly sequential: the run of the next
\* topic begins only when the run in flight has returned or thrown, so at
\* most one run is in flight.
C16_RunsAreSequential ==
    [][(batch' # "none" /\ index' # index) =>
            /\ pc \in {"returned", "threw"}
            /\ index' = index + 1
            /\ Len(results') = index']_vars

C16_Witness ==
    /\ batch = "running"
    /\ index = 1
    /\ pc = "s3_wait"
    /\ Len(results) = 1

\* C17: in a batch of two or more topics the 2000 ms pause is taken between
\* every two consecutive runs, whether the earlier run succeeded or failed,
\* and not after the last topic.
C17_PauseBetweenRuns ==
    /\ pauses \subseteq 0..(Len(topics) - 2)
    /\ \A k \in 0..(Len(topics) - 2) : index > k => k \in pauses

\* the step is the answer of the handler op
Answered(op) == served'.seq # served.seq /\ served'.op = op

\* the records a and b agree on id, topic and createdAt
SameRecord(a, b) ==
    /\ a.id = b.id
    /\ a.topic = b.topic
    /\ a.createdAt = b.createdAt

\* C18: once a run has stored an Article, getArticleById(id) gives a record
\* with the id, topic and createdAt of the record the run returned, whatever
\* other records are stored, whatever statistics and listings are asked for,
\* and whatever other ids are deleted.
C18_StoredRecordStable ==
    [][/\ (pc = "persist" /\ pc' = "returned") =>
            /\ getArticleById(articles', article'.id) # JsonNull
            /\ SameRecord(getArticleById(articles', article'.id), article')
       /\ \A id \in DOMAIN articles :
            ~(Answered("deleteArticle") /\ served'.id = id) =>
                /\ getArticleById(articles', id) # JsonNull
                /\ SameRecord(getArticleById(articles', id), articles[id])
       /\ (Answered("getArticle") /\ served'.id \in DOMAIN articles) =>
                /\ served'.status = 200
                /\ SameRecord(served'.data, articles[served'.id])]_vars

C18_Witness ==
    /\ served.op = "getArticle"
    /\ served.id = 1
    /\ served.status = 200
    /\ nextId = 2
    /\ DOMAIN articles = {1}
    /\ pc = "done"

C20_OneRecordPerSuccess ==
    [][/\ (pc = "persist" /\ pc' = "returned") =>
            /\ article'.id \notin 1..nextId
            /\ article'.id \notin DOMAIN articles
            /\ DOMAIN articles' = DOMAIN articles \cup {article'.id}
            /\ articles'[article'.id] = article'
            /\ \A id \in DOMAIN articles : articles'[id] = articles[id]
       /\ (pc' # pc /\ pc # "persist") => articles' = articles]_vars

C20_Witness ==
    /\ pc = "returned"
    /\ article.id = 2
    /\ DOMAIN articles = {2}
    /\ served.op = "deleteArticle"
    /\ served.id = 1
    /\ served.status = 200

\* a step in which the route received a request
Receives(route) == body'.seq # body.seq /\ body'.route = route

\* the fields of a generate-advanced body that break a rule of the
\* interface: topic required, of 3 to 200 characters; article_count an
\* integer in 1..5; content_length one of three; tone one of six;
\* auto_optimize and include_analytics booleans
ViolatedFields(b) ==
    LET Given(f) == b[f].js # "undefined"
    IN  {f \in {"topic"} :
            b.topic.js # "string" \/ Len(b.topic.text) \notin 3..200}
        \cup {f \in {"article_count"} :
                Given(f) /\ b[f].num \notin {Num(n) : n \in 1..5}}
        \cup {f \in {"content_length"} :
                Given(f) /\ b[f] \notin {Text("short"), Text("medium"), Text("long")}}
        \cup {f \in {"tone"} :
                Given(f) /\ b[f] \notin
                    {Text("professional"), Text("casual"), Text("analytical"),
                     Text("conversational"), Text("authoritative"),
                     Text("engaging")}}
        \cup {f \in {"auto_optimize", "include_analytics"} :
                Given(f) /\ b[f].js # "boolean"}

C23_UnknownIdNotFound ==
    [][(Answered("getArticle") /\ served'.id \notin DOMAIN articles) =>
            /\ served'.status = 404
            /\ served'.success = FALSE
            /\ articles' = articles]_vars

\* the record of id 1 was stored and deleted, another record is held, and a
\* GET for id 1 was answered 404
C23_Witness ==
    /\ served.op = "getArticle"
    /\ served.id = 1
    /\ served.status = 404
    /\ nextId >= 1
    /\ DOMAIN articles = {2}

\* C24: a delete is answered 200 exactly when its id was a key and 404
\* otherwise; after it the id is no key, so that a lookup gives null and a
\* second delete of the id is answered 404, and every other record is held
\* as before.
C24_DeleteRemovesOne ==
    [][Answered("deleteArticle") =>
            LET id == served'.id
            IN  /\ served'.deleted = (id \in DOMAIN articles)
                /\ served'.status = IF id \in DOMAIN articles THEN 200 ELSE 404
                /\ served'.success = (id \in DOMAIN articles)
                /\ id \notin DOMAIN articles'
                /\ DOMAIN articles' = DOMAIN articles \ {id}
                /\ \A k \in DOMAIN articles' : articles'[k] = articles[k]]_vars

\* the second delete of id 1 was answered 404 while the record of id 2 is
\* still held
C24_Witness ==
    /\ served.op = "deleteArticle"
    /\ served.id = 1
    /\ served.status = 404
    /\ nextId = 2
    /\ DOMAIN articles = {2}

MappedLength(wordCount) ==
    LET n == IF wordCount.js = "undefined" THEN 1000 ELSE wordCount.num.int
    IN  IF n > 1500 THEN "long"
        ELSE IF n > 1000 /\ n <= 1500 THEN "medium"
        ELSE "short"

\* C26: the legacy endpoint starts the orchestrator with the content_length
\* its word count maps to and with article_count 1, and the record of every
\* legacy request that succeeds has candidates_generated 1.
C26_LegacyMapsWordCount ==
    [][/\ (Receives("generate") /\ pc' = "s1_wait") =>
            /\ req'.content_length = MappedLength(body'.json.wordCount)
            /\ req'.article_count = Num(1)
       /\ (entry = "legacy" /\ response'.status = 201) =>
            /\ article.candidates_generated = 1
            /\ articles[article.id].candidates_generated = 1]_vars

\* a legacy request of 1500 words ran with length medium and succeeded with
\* its one candidate, out of two trending topics
C26_Witness ==
    /\ body.route = "generate"
    /\ body.json.wordCount = [js |-> "number", num |-> Num(1500)]
    /\ req.content_length = "medium"
    /\ response.status = 201
    /\ article.candidates_generated = 1
    /\ article.trending_topics_analyzed = Num(2)

\* C27: with two runs in flight and gets, listings and deletes at any
\* moment, a record that is held stays held, as it is, unless a delete names
\* its id; a record appears only as a run stores its own, under an id no
\* record was given before; and the id of a stored record is that of no
\* other run. The store thus holds the records of the runs that succeeded
\* less those deleted.
C27_RunsDoNotInterfere ==
    [][/\ \A id \in DOMAIN articles :
            \/ id \in DOMAIN articles' /\ articles'[id] = articles[id]
            \/ Answered("deleteArticle") /\ served'.id = id
       /\ \A id \in DOMAIN articles' \ DOMAIN articles :
            /\ pc = "persist" /\ pc' = "returned"
            /\ article'.id = id
            /\ articles'[id] = article'
            /\ id \notin 1..nextId
            /\ nextId' = id
       /\ (pc = "persist" /\ pc' = "returned") =>
            /\ DOMAIN articles' = DOMAIN articles \cup {article'.id}
            /\ \A k \in 1..Len(suspended) :
                    suspended[k].article # Undefined =>
                        suspended[k].article.id # article'.id]_vars

\* the first request was still in flight when the second one stored its
\* record; it then stored its own, and both are held
C27_Witness ==
    /\ suspended # << >>
    /\ suspended[1].pc = "done"
    /\ suspended[1].req.request = 2
    /\ suspended[1].article # Undefined
    /\ suspended[1].article.id = 1
    /\ req.request = 1
    /\ article # Undefined
    /\ article.id = 2
    /\ DOMAIN articles = {1, 2}

\* ---- cleanJSONResponse keeps the bracketed text ----

\* the first position of text that holds one of the units, 0 when none does
FirstOf(text, units) ==
    LET at == {pos \in 1..Len(text) : text[pos] \in units}
    IN  IF at = {} THEN 0 ELSE CHOOSE pos \in at : \A other \in at : pos <= other

\* the last position of text that holds one of the units, 0 when none does
LastOf(text, units) ==
    LET at == {pos \in 1..Len(text) : text[pos] \in units}
    IN  IF at = {} THEN 0 ELSE CHOOSE pos \in at : \A other \in at : other <= pos

\* the text without fence markers, from the first '{' or '[' (whichever
\* comes first) to the last '}' or ']' after it; a side that has no such
\* bracket is left as it is
BracketSpan(content) ==
    LET unfenced == SelectSeq(content, LAMBDA u : ~IsFence(u))
        opening == FirstOf(unfenced, {"{", "["})
        from == IF opening = 0 THEN unfenced
                ELSE SubSeq(unfenced, opening, Len(unfenced))
        closing == LastOf(from, {"}", "]"})
    IN  IF closing = 0 THEN from ELSE SubSeq(from, 1, closing)

\* C28: the text cleanJSONResponse makes of the content the upstream wrote
\* is the content without fence markers, from the first '{' or '[',
\* whichever comes first, to the last '}' or ']': the prose before and after
\* is removed and nothing between the two brackets is.
C28_CleanedIsBracketSpan ==
    (Delivered /\ invocation.returnJSON
        /\ invocation.upstream.status = "content")
        => cleanJSONResponse(invocation.upstream.content)
            = BracketSpan(invocation.upstream.content)


\* ---- the order of the upstream requests of a run ----

TypesOf(sent) == [k \in DOMAIN sent |-> sent[k].taskType]

\* the stages of a run with n candidates: trend discovery, the candidates,
\* selection, optimization if auto_optimize, prediction if include_analytics
StagesOf(n) ==
    n + 2 + (IF req.auto_optimize THEN 1 ELSE 0)
          + (IF req.include_analytics THEN 1 ELSE 0)

\* the task of the k-th stage of such a run
StageAt(k, n) ==
    IF k = 1 THEN "trending_analysis"
    ELSE IF k <= n + 1 THEN "article_generation"
    ELSE IF k = n + 2 THEN "article_selection"
    ELSE IF k = n + 3 /\ req.auto_optimize THEN "article_optimization"
    ELSE "performance_prediction"

\* sent holds the first stages, in order, of the run that makes one
\* candidate for each topic index below min(article_count, topics)
InStageOrder(sent) ==
    \E n \in {Cardinality(TopicsToAttempt)} :
        /\ Len(sent) <= StagesOf(n)
        /\ \A k \in DOMAIN sent : sent[k].taskType = StageAt(k, n)

\* sent holds every stage of that run
AllStages(sent) == Len(sent) = StagesOf(Cardinality(TopicsToAttempt))

Pending == {k \in DOMAIN fetches : fetches[k].pending}

\* the record of the run is in the store
Persisted == pc \in {"returned", "done"} /\ article # Undefined

\* at most one request is outstanding, and the requests follow the stage
\* invocations that sent them, in order and at most one for each
RequestsFollowCalls ==
    /\ Cardinality(Pending) <= 1
    /\ \A k \in DOMAIN fetches :
        /\ fetches[k].call \in DOMAIN calls
        /\ fetches[k].taskType = calls[fetches[k].call].taskType
        /\ k > 1 => fetches[k - 1].call < fetches[k].call

\* the stage invoked last has sent a request, which is outstanding
LastCallSent ==
    /\ fetches # << >>
    /\ fetches[Len(fetches)].call = Len(calls)
    /\ fetches[Len(fetches)].pending

\* C29 as stated: the upstream requests of a run are sent in the order
\* trend discovery, candidates 0..k-1, selection, optimization (if
\* auto_optimize), prediction (if include_analytics); at most one is
\* outstanding; every stage invocation sends exactly one; the record is
\* stored only after the last has resolved.
C29_OneRequestPerStage ==
    [][ /\ calls' # calls =>
            /\ InStageOrder(fetches)'
            /\ RequestsFollowCalls'
            /\ Len(fetches') = Len(calls')
        /\ articles' # articles => (Pending = {} /\ AllStages(fetches)) ]_vars

\* C29, amended: the stage methods of a run are invoked in the order trend
\* discovery, candidates 0..k-1, selection, optimization (if auto_optimize),
\* prediction (if include_analytics); every invocation sends at most one
\* upstream request: none when the service holds no API key or the stage
\* method throws before it awaits the upstream, and one otherwise; the
\* requests follow the order of the invocations and at most one is
\* outstanding; the record is stored only after every stage was invoked and
\* every request has resolved.
C29_AtMostOneRequestPerStage ==
    [][ /\ calls' # calls =>
            /\ InStageOrder(calls)'
            /\ RequestsFollowCalls'
            /\ Len(fetches') <= Len(calls')
            /\ apiKey = "undefined" => fetches' = << >>
            /\ LastCallSent' <=> (apiKey # "undefined" /\ pc' \in AwaitPoints)
        /\ articles' # articles => (Pending = {} /\ AllStages(calls)) ]_vars

C29_Witness ==
    /\ Persisted
    /\ pc = "returned"
    /\ TypesOf(fetches)
        = << "trending_analysis", "article_generation", "article_generation",
             "article_selection", "article_optimization",
             "performance_prediction" >>
    /\ TypesOf(calls) = TypesOf(fetches)
    /\ Pending = {}


\* ---- the mock conforms to the schema ----

\* the fields of a parsed object
FieldsOf(v) == DOMAIN v \ {"js"}

\* v has every field node requires and none outside node's properties, at
\* every nesting level
RECURSIVE Conforms(_, _)
Conforms(v, node) ==
    CASE node.type = "object" ->
            /\ v.js = "object"
            /\ node.required \subseteq FieldsOf(v)
            /\ FieldsOf(v) \subseteq DOMAIN node.properties
            /\ \A f \in FieldsOf(v) : Conforms(v[f], node.properties[f])
      [] node.type = "array" ->
            /\ v.js = "array"
            /\ \A k \in DOMAIN v.items : Conforms(v.items[k], node.items)
      [] OTHER -> TRUE

\* the call fell back on the mock: the body or the content the upstream
\* wrote is not JSON (lines 523-531)
MockReturned ==
    /\ Delivered
    /\ invocation.returnJSON
    /\ \/ invocation.upstream.status = "bad_body"
       \/ invocation.upstream.status = "http_error"
            /\ invocation.upstream.inJSON
       \/ invocation.upstream.status = "content"
            /\ JSONparse(cleanJSONResponse(invocation.upstream.content)).threw

\* C30: for each of the five task types the mock the call falls back on
\* conforms to the schema of the task: every field the schema requires is
\* present, at every nesting level, and no field is outside the schema's
\* properties.
C30_MockConformsToSchema ==
    MockReturned =>
        /\ ~settled.threw
        /\ Conforms(settled.value, getJSONSchema(invocation.taskType))

C30_Witness ==
    /\ MockReturned
    /\ invocation.taskType = "article_selection"
    /\ invocation.upstream.status = "bad_body"
    /\ "optimization_suggestions" \in FieldsOf(settled.value.selection_reasoning)


\* ---- every run returns, and a hung upstream stalls one request only ----

\* the run of request n has answered its client
Done(n) ==
    \/ /\ pc = "done"
       /\ "request" \in DOMAIN req
       /\ req.request = n
       /\ response.status \in {201, 500}
    \/ /\ suspended # << >>
       /\ suspended[1].pc = "done"
       /\ suspended[1].req.request = n
       /\ suspended[1].response.status \in {201, 500}

\* the run of request n is in flight
InFlight(n) ==
    \/ /\ pc \notin {"idle", "done"}
       /\ "request" \in DOMAIN req
       /\ req.request = n
    \/ /\ suspended # << >>
       /\ suspended[1].pc # "done"
       /\ suspended[1].req.request = n

\* C31: every run whose upstream calls all resolve answers with an article
\* or an error in the end, and every batch returns; a run whose upstream
\* call never resolves never answers, and the other request in flight
\* answers all the same.
C31_RunsReturn ==
    /\ \A n \in Clients : InFlight(n) ~> (Done(n) \/ n \in hung)
    /\ (batch = "running") ~> (batch = "returned")
    /\ [](\A n \in hung : ~Done(n))

C31_Witness ==
    /\ hung = {1}
    /\ Done(2)
    /\ suspended # << >>
    /\ suspended[1].req.request = 1
    /\ suspended[1].pc \in AwaitPoints


\* ---- the record of a batch entry carries the entry's topic ----

\* C32: for every entry of batch_results with status success, the stored
\* record with the entry's article_id has the entry's topic, the topic at
\* that position of topics, whatever the shared parameters hold.
C32_EntryTopicIsStoredTopic ==
    \A k \in DOMAIN results :
        (results[k].status = "success"
            /\ results[k].article_id \in DOMAIN articles) =>
                /\ results[k].topic = topics[k]
                /\ articles[results[k].article_id].topic = results[k].topic


\* ---- the legacy endpoint and the store ----

\* C33: when the legacy generateArticle has failed, no record made by its
\* request is in the store.
C33_LegacyFailureStoresNothing ==
    (entry = "legacy" /\ pc = "done" /\ response.status = 500) =>
        \A id \in DOMAIN articles : articles[id].topic # req.topic


\* ---- well-formed JSON passes cleanJSONResponse untouched ----

\* the content the upstream wrote is a well-formed JSON object or array,
\* with no prose and no fence around it
WellFormedJSON ==
    /\ Delivered
    /\ invocation.returnJSON
    /\ invocation.upstream.status = "content"
    /\ Head(invocation.upstream.content) \in {"{", "["}
    /\ ~JSONparse(invocation.upstream.content).threw

\* C34: a content that is a well-formed JSON object or array is returned
\* unchanged by cleanJSONResponse, and the call returns it as parsed, never
\* the mock.
C34_WellFormedJSONKept ==
    WellFormedJSON =>
        /\ cleanJSONResponse(invocation.upstream.content)
            = invocation.upstream.content
        /\ settled = Returned(JSONparse(invocation.upstream.content).value)


\* ---- the article the prediction prompt is written about ----

\* the final article of a record: optimized_article when the optimization
\* gave one, selected_article otherwise
FinalArticleOf(result) ==
    IF Has(result, "optimized_article") THEN result.optimized_article
    ELSE result.selected_article

\* the prediction call is out
PredictionAsked ==
    /\ pc = "s5_wait"
    /\ calls[Len(calls)].taskType = "performance_prediction"

\* C35: whenever stage 5 runs, the title, the content and the tags in the
\* prediction prompt are those of the final article: of optimized_article
\* when the optimization succeeded, of selected_article otherwise.
C35_PredictionReadsFinalArticle ==
    PredictionAsked =>
        LET final == FinalArticleOf(finalArticle)
        IN  /\ calls[Len(calls)].prompt.title = Read(final, "title")
            /\ calls[Len(calls)].prompt.content = Read(final, "content")
            /\ calls[Len(calls)].prompt.tags = Read(final, "tags")


\* ---- by_status.optimized of the statistics ----

\* the records of a store whose result carries an optimized_article
CarryOptimized(store) ==
    {id \in DOMAIN store : Has(store[id].result, "optimized_article")}

\* C36: by_status.optimized of getArticleStats is the number of stored
\* articles whose result carries optimized_article.
C36_OptimizedCountsOptimizedArticles ==
    served.op = "getArticleStats" =>
        served.data.by_status.optimized
            = Cardinality(CarryOptimized(served.store))


\* ---- by_tone of the statistics ----

RECURSIVE SumOver(_, _)
SumOver(counts, keys) ==
    IF keys = {} THEN 0
    ELSE LET k == CHOOSE x \in keys : TRUE
         IN  counts[k] + SumOver(counts, keys \ {k})

\* C37: after any generations through the three endpoints and any deletes,
\* every stored article is counted in exactly one by_tone bucket, and the
\* counts of by_tone add up to total_articles.
C37_ToneBucketsCoverStore ==
    served.op = "getArticleStats" =>
        /\ \A id \in DOMAIN served.store :
              served.store[id].tone \in DOMAIN served.data.by_tone
        /\ SumOver(served.data.by_tone, DOMAIN served.data.by_tone)
              = served.data.total_articles


\* ---- article_count of the runs the endpoints start ----

\* a run started by a request is under way or over
RunStarted == entry \in {"advanced", "batch"} /\ body.route # "none"

\* C38: every run started through an HTTP endpoint runs with an integer
\* article_count in 1..5: a request whose article_count is outside never
\* reaches generateAdvancedArticle.
C38_ArticleCountInRange ==
    RunStarted =>
        /\ ~req.article_count.nan
        /\ ~req.article_count.half
        /\ req.article_count.int >= MinArticleCount
        /\ req.article_count.int <= MaxArticleCount


\* ---- the health check after configure ----

\* configure has answered success: the environment holds a key it accepted
Configured ==
    \E b \in ConfigureBodies :
        /\ ~validateRequest(validationRules("configure", b)).threw
        /\ envKey = b.openai_api_key.text

\* C39: after configure has answered success, every health check reports
\* api_key_configured = true.
C39_HealthReportsConfiguredKey ==
    (served.op = "healthCheck" /\ Configured) => served.api_key_configured


=========================================================================
